---- MODULE Spec2Model ----
(***************************************************************************)
(* Ledger engine of the finance tracker: accounts, transactions, debts and *)
(* subscriptions (src/models.py), the store that keeps their rows and its  *)
(* sweeps (src/db.py), and the handlers that drive them (src/ui/*.py).     *)
(*                                                                         *)
(* Money is counted in hundredths (the smallest amount the 0.01 tolerance  *)
(* of the code distinguishes), so amounts are integers.                    *)
(***************************************************************************)
EXTENDS Integers, Sequences, FiniteSets, TLC

VARIABLES
    accounts,        \* accounts table: id -> row (Account.to_dict)
    transactions,    \* transactions table: id -> row (Transaction.to_dict)
    debts,           \* debts table: id -> row (Debt.to_dict)
    subscriptions,   \* subscriptions table: id -> row (Subscription.to_dict)
    today,           \* date.today(), a date
    last,            \* the last call made and what it returned
    refused,         \* ids of the transactions whose approval was answered "Failed to process"
    calls            \* the handler calls in progress: caller -> the call's local state

vars == <<accounts, transactions, debts, subscriptions, today, last, refused, calls>>

(***************************************************************************)
(* Bounds of the model.                                                    *)
(***************************************************************************)
MaxAmount == 2       \* amounts of transactions, deposits and withdrawals
MaxBalance == 2      \* balances are kept within -MaxBalance .. MaxBalance by the direct calls
MaxDebtAmount == 3   \* total amount of a debt
MaxDebts == 1        \* debts ever created
MaxSubs == 1         \* subscriptions ever created
MaxTxns == 2         \* transactions ever written by the debt and subscription handlers
MaxLedgerTxns == 1   \* transactions ever written in the ledger specification

Amounts == 1..MaxAmount

None == "None"

(***************************************************************************)
(* Dates.  A date is a record; the store keeps dates as ISO-8601 text      *)
(* (date.isoformat()), modelled as the sequence of its character codes,    *)
(* and compares them as text.                                              *)
(***************************************************************************)
Date(y, m, d) == [year |-> y, month |-> m, day |-> d]

IsLeap(y) == (y % 4 = 0 /\ y % 100 # 0) \/ y % 400 = 0

DaysInMonth(y, m) ==
    IF m = 2 THEN (IF IsLeap(y) THEN 29 ELSE 28)
    ELSE IF m \in {4, 6, 9, 11} THEN 30 ELSE 31

Digit(n) == 48 + n

isoformat(dt) ==
    << Digit(dt.year \div 1000), Digit((dt.year \div 100) % 10),
       Digit((dt.year \div 10) % 10), Digit(dt.year % 10), 45,
       Digit(dt.month \div 10), Digit(dt.month % 10), 45,
       Digit(dt.day \div 10), Digit(dt.day % 10) >>

strptime(s) ==
    Date((s[1] - 48) * 1000 + (s[2] - 48) * 100 + (s[3] - 48) * 10 + (s[4] - 48),
         (s[6] - 48) * 10 + (s[7] - 48),
         (s[9] - 48) * 10 + (s[10] - 48))

\* text comparison s < t, character by character
TextLess(s, t) ==
    \/ \E i \in 1..Len(s) :
          /\ i <= Len(t)
          /\ s[i] < t[i]
          /\ \A j \in 1..(i - 1) : s[j] = t[j]
    \/ /\ Len(s) < Len(t)
       /\ \A j \in 1..Len(s) : s[j] = t[j]

TextLeq(s, t) == s = t \/ TextLess(s, t)

\* date + relativedelta(months=n): the day is clipped to the month's length
AddMonths(dt, n) ==
    LET total == (dt.year * 12 + (dt.month - 1)) + n
        y == total \div 12
        m == (total % 12) + 1
        dim == DaysInMonth(y, m)
    IN  Date(y, m, IF dt.day > dim THEN dim ELSE dt.day)

(***************************************************************************)
(* Account (src/models.py).                                                *)
(***************************************************************************)
AccountIds == {"debit", "credit", "savings"}
GoneId == "gone"     \* the id of an account that is no longer stored
CreditLimit == MaxBalance - 1

Account(type, balance, limit) ==
    [account_type |-> type, currency |-> "CHF", balance |-> balance,
     credit_limit |-> limit, is_savings |-> (type = "savings")]

Account_to_dict(a) ==
    [account_type |-> a.account_type, currency |-> a.currency, balance |-> a.balance,
     credit_limit |-> a.credit_limit, is_savings |-> IF a.is_savings THEN 1 ELSE 0]

Account_from_dict(data) ==
    [account_type |-> data.account_type, currency |-> data.currency,
     balance |-> data.balance, credit_limit |-> data.credit_limit,
     is_savings |-> (data.is_savings # 0)]

\* deposit that credits the amount twice
deposit_twice(a, amount) == [a EXCEPT !.balance = @ + amount + amount]

deposit(a, amount) == [a EXCEPT !.balance = @ + amount]

\* withdraw with a savings account treated like a debit account
withdraw_savings_overdraft(a, amount) ==
    IF a.account_type = "credit"
    THEN IF a.balance - amount >= -a.credit_limit
         THEN [ret |-> TRUE, account |-> [a EXCEPT !.balance = @ - amount]]
         ELSE [ret |-> FALSE, account |-> a]
    ELSE [ret |-> TRUE, account |-> [a EXCEPT !.balance = @ - amount]]

\* withdraw with the credit limit compared strictly
withdraw_credit_strict(a, amount) ==
    IF a.account_type = "credit"
    THEN IF a.balance - amount > -a.credit_limit
         THEN [ret |-> TRUE, account |-> [a EXCEPT !.balance = @ - amount]]
         ELSE [ret |-> FALSE, account |-> a]
    ELSE IF a.account_type = "savings"
    THEN IF a.balance >= amount
         THEN [ret |-> TRUE, account |-> [a EXCEPT !.balance = @ - amount]]
         ELSE [ret |-> FALSE, account |-> a]
    ELSE [ret |-> TRUE, account |-> [a EXCEPT !.balance = @ - amount]]

\* withdraw that lowers a credit balance before it tests the limit and does
\* not restore it when the test fails
withdraw_credit_unrestored(a, amount) ==
    IF a.account_type = "credit"
    THEN [ret |-> (a.balance - amount >= -a.credit_limit),
          account |-> [a EXCEPT !.balance = @ - amount]]
    ELSE IF a.account_type = "savings"
    THEN IF a.balance >= amount
         THEN [ret |-> TRUE, account |-> [a EXCEPT !.balance = @ - amount]]
         ELSE [ret |-> FALSE, account |-> a]
    ELSE [ret |-> TRUE, account |-> [a EXCEPT !.balance = @ - amount]]

\* withdraw that asks a savings account for more than the amount
withdraw_savings_strict(a, amount) ==
    IF a.account_type = "credit"
    THEN IF a.balance - amount >= -a.credit_limit
         THEN [ret |-> TRUE, account |-> [a EXCEPT !.balance = @ - amount]]
         ELSE [ret |-> FALSE, account |-> a]
    ELSE IF a.account_type = "savings"
    THEN IF a.balance > amount
         THEN [ret |-> TRUE, account |-> [a EXCEPT !.balance = @ - amount]]
         ELSE [ret |-> FALSE, account |-> a]
    ELSE [ret |-> TRUE, account |-> [a EXCEPT !.balance = @ - amount]]

\* withdraw returns whether it succeeded and the account as the call leaves it
withdraw(a, amount) ==
    IF a.account_type = "credit"
    THEN IF a.balance - amount >= -a.credit_limit
         THEN [ret |-> TRUE, account |-> [a EXCEPT !.balance = @ - amount]]
         ELSE [ret |-> FALSE, account |-> a]
    ELSE IF a.account_type = "savings"
    THEN IF a.balance >= amount
         THEN [ret |-> TRUE, account |-> [a EXCEPT !.balance = @ - amount]]
         ELSE [ret |-> FALSE, account |-> a]
    ELSE [ret |-> TRUE, account |-> [a EXCEPT !.balance = @ - amount]]

(***************************************************************************)
(* Transaction (src/models.py).                                            *)
(***************************************************************************)
TransactionTypes == {"transfer", "spending", "income", "adjustment"}
TransactionStatuses == {"pending", "completed", "canceled"}

Transaction(date, amount, type, from, to, status) ==
    [date |-> date, amount |-> amount, transaction_type |-> type,
     from_account_id |-> from, to_account_id |-> to, status |-> status]

Transaction_to_dict(t) == [t EXCEPT !.date = isoformat(t.date)]

Transaction_from_dict(data) == [data EXCEPT !.date = strptime(data.date)]

\* execute without the guard on the status
execute_unguarded(t, accts) ==
    LET from == t.from_account_id
        to == t.to_account_id
        fail == [ret |-> FALSE, txn |-> t, accounts |-> accts]
        done == [t EXCEPT !.status = "completed"]
    IN  IF t.transaction_type = "transfer" /\ from # None /\ to # None
        THEN IF from \in DOMAIN accts /\ to \in DOMAIN accts
                /\ withdraw(accts[from], t.amount).ret
             THEN LET withdrawn == [accts EXCEPT ![from] = withdraw(accts[from], t.amount).account]
                  IN  [ret |-> TRUE, txn |-> done,
                       accounts |-> [withdrawn EXCEPT ![to] = deposit(withdrawn[to], t.amount)]]
             ELSE fail
        ELSE IF t.transaction_type = "spending" /\ from # None
        THEN IF from \in DOMAIN accts /\ withdraw(accts[from], t.amount).ret
             THEN [ret |-> TRUE, txn |-> done,
                   accounts |-> [accts EXCEPT ![from] = withdraw(accts[from], t.amount).account]]
             ELSE fail
        ELSE IF t.transaction_type = "income" /\ to # None
        THEN IF to \in DOMAIN accts
             THEN [ret |-> TRUE, txn |-> done,
                   accounts |-> [accts EXCEPT ![to] = deposit(accts[to], t.amount)]]
             ELSE fail
        ELSE IF t.transaction_type = "adjustment" /\ (from # None \/ to # None)
        THEN [ret |-> TRUE, txn |-> done, accounts |-> accts]
        ELSE fail

\* execute with the transfer's deposit made before the withdraw is tried
execute_deposit_first(t, accts) ==
    LET from == t.from_account_id
        to == t.to_account_id
        fail == [ret |-> FALSE, txn |-> t, accounts |-> accts]
        done == [t EXCEPT !.status = "completed"]
    IN  IF t.status # "pending" THEN fail
        ELSE IF t.transaction_type = "transfer" /\ from # None /\ to # None
        THEN IF from \in DOMAIN accts /\ to \in DOMAIN accts
             THEN LET deposited == [accts EXCEPT ![to] = deposit(accts[to], t.amount)]
                      w == withdraw(deposited[from], t.amount)
                  IN  IF w.ret
                      THEN [ret |-> TRUE, txn |-> done,
                            accounts |-> [deposited EXCEPT ![from] = w.account]]
                      ELSE [ret |-> FALSE, txn |-> t, accounts |-> deposited]
             ELSE fail
        ELSE IF t.transaction_type = "spending" /\ from # None
        THEN IF from \in DOMAIN accts /\ withdraw(accts[from], t.amount).ret
             THEN [ret |-> TRUE, txn |-> done,
                   accounts |-> [accts EXCEPT ![from] = withdraw(accts[from], t.amount).account]]
             ELSE fail
        ELSE IF t.transaction_type = "income" /\ to # None
        THEN IF to \in DOMAIN accts
             THEN [ret |-> TRUE, txn |-> done,
                   accounts |-> [accts EXCEPT ![to] = deposit(accts[to], t.amount)]]
             ELSE fail
        ELSE IF t.transaction_type = "adjustment" /\ (from # None \/ to # None)
        THEN [ret |-> TRUE, txn |-> done, accounts |-> accts]
        ELSE fail

\* execute that gives up on a transaction whose withdraw is refused
execute_cancel_on_failure(t, accts) ==
    LET from == t.from_account_id
        to == t.to_account_id
        fail == [ret |-> FALSE, txn |-> t, accounts |-> accts]
        denied == [ret |-> FALSE, txn |-> [t EXCEPT !.status = "canceled"], accounts |-> accts]
        done == [t EXCEPT !.status = "completed"]
    IN  IF t.status # "pending" THEN fail
        ELSE IF t.transaction_type = "transfer" /\ from # None /\ to # None
        THEN IF from \in DOMAIN accts /\ to \in DOMAIN accts
                /\ withdraw(accts[from], t.amount).ret
             THEN LET withdrawn == [accts EXCEPT ![from] = withdraw(accts[from], t.amount).account]
                  IN  [ret |-> TRUE, txn |-> done,
                       accounts |-> [withdrawn EXCEPT ![to] = deposit(withdrawn[to], t.amount)]]
             ELSE denied
        ELSE IF t.transaction_type = "spending" /\ from # None
        THEN IF from \in DOMAIN accts /\ withdraw(accts[from], t.amount).ret
             THEN [ret |-> TRUE, txn |-> done,
                   accounts |-> [accts EXCEPT ![from] = withdraw(accts[from], t.amount).account]]
             ELSE denied
        ELSE IF t.transaction_type = "income" /\ to # None
        THEN IF to \in DOMAIN accts
             THEN [ret |-> TRUE, txn |-> done,
                   accounts |-> [accts EXCEPT ![to] = deposit(accts[to], t.amount)]]
             ELSE fail
        ELSE IF t.transaction_type = "adjustment" /\ (from # None \/ to # None)
        THEN [ret |-> TRUE, txn |-> done, accounts |-> accts]
        ELSE fail

\* execute that completes an income whose destination account is not stored
execute_income_unchecked(t, accts) ==
    LET from == t.from_account_id
        to == t.to_account_id
        fail == [ret |-> FALSE, txn |-> t, accounts |-> accts]
        done == [t EXCEPT !.status = "completed"]
    IN  IF t.status # "pending" THEN fail
        ELSE IF t.transaction_type = "transfer" /\ from # None /\ to # None
        THEN IF from \in DOMAIN accts /\ to \in DOMAIN accts
                /\ withdraw(accts[from], t.amount).ret
             THEN LET withdrawn == [accts EXCEPT ![from] = withdraw(accts[from], t.amount).account]
                  IN  [ret |-> TRUE, txn |-> done,
                       accounts |-> [withdrawn EXCEPT ![to] = deposit(withdrawn[to], t.amount)]]
             ELSE fail
        ELSE IF t.transaction_type = "spending" /\ from # None
        THEN IF from \in DOMAIN accts /\ withdraw(accts[from], t.amount).ret
             THEN [ret |-> TRUE, txn |-> done,
                   accounts |-> [accts EXCEPT ![from] = withdraw(accts[from], t.amount).account]]
             ELSE fail
        ELSE IF t.transaction_type = "income" /\ to # None
        THEN IF to \in DOMAIN accts
             THEN [ret |-> TRUE, txn |-> done,
                   accounts |-> [accts EXCEPT ![to] = deposit(accts[to], t.amount)]]
             ELSE [ret |-> TRUE, txn |-> done, accounts |-> accts]
        ELSE IF t.transaction_type = "adjustment" /\ (from # None \/ to # None)
        THEN [ret |-> TRUE, txn |-> done, accounts |-> accts]
        ELSE fail

\* execute that applies a pending adjustment to the balance of the account it names
execute_adjustment_applied(t, accts) ==
    LET from == t.from_account_id
        to == t.to_account_id
        fail == [ret |-> FALSE, txn |-> t, accounts |-> accts]
        done == [t EXCEPT !.status = "completed"]
    IN  IF t.status # "pending" THEN fail
        ELSE IF t.transaction_type = "transfer" /\ from # None /\ to # None
        THEN IF from \in DOMAIN accts /\ to \in DOMAIN accts
                /\ withdraw(accts[from], t.amount).ret
             THEN LET withdrawn == [accts EXCEPT ![from] = withdraw(accts[from], t.amount).account]
                  IN  [ret |-> TRUE, txn |-> done,
                       accounts |-> [withdrawn EXCEPT ![to] = deposit(withdrawn[to], t.amount)]]
             ELSE fail
        ELSE IF t.transaction_type = "spending" /\ from # None
        THEN IF from \in DOMAIN accts /\ withdraw(accts[from], t.amount).ret
             THEN [ret |-> TRUE, txn |-> done,
                   accounts |-> [accts EXCEPT ![from] = withdraw(accts[from], t.amount).account]]
             ELSE fail
        ELSE IF t.transaction_type = "income" /\ to # None
        THEN IF to \in DOMAIN accts
             THEN [ret |-> TRUE, txn |-> done,
                   accounts |-> [accts EXCEPT ![to] = deposit(accts[to], t.amount)]]
             ELSE fail
        ELSE IF t.transaction_type = "adjustment" /\ (from # None \/ to # None)
        THEN [ret |-> TRUE, txn |-> done,
              accounts |-> [a \in DOMAIN accts |->
                              IF a = to THEN deposit(accts[a], t.amount)
                              ELSE IF a = from
                                   THEN [accts[a] EXCEPT !.balance = @ - t.amount]
                                   ELSE accts[a]]]
        ELSE fail

\* execute(accounts): the value returned, the transaction and the account
\* map as the call leaves them
execute(t, accts) ==
    LET from == t.from_account_id
        to == t.to_account_id
        fail == [ret |-> FALSE, txn |-> t, accounts |-> accts]
        done == [t EXCEPT !.status = "completed"]
    IN  IF t.status # "pending" THEN fail
        ELSE IF t.transaction_type = "transfer" /\ from # None /\ to # None
        THEN IF from \in DOMAIN accts /\ to \in DOMAIN accts
                /\ withdraw(accts[from], t.amount).ret
             THEN LET withdrawn == [accts EXCEPT ![from] = withdraw(accts[from], t.amount).account]
                  IN  [ret |-> TRUE, txn |-> done,
                       accounts |-> [withdrawn EXCEPT ![to] = deposit(withdrawn[to], t.amount)]]
             ELSE fail
        ELSE IF t.transaction_type = "spending" /\ from # None
        THEN IF from \in DOMAIN accts /\ withdraw(accts[from], t.amount).ret
             THEN [ret |-> TRUE, txn |-> done,
                   accounts |-> [accts EXCEPT ![from] = withdraw(accts[from], t.amount).account]]
             ELSE fail
        ELSE IF t.transaction_type = "income" /\ to # None
        THEN IF to \in DOMAIN accts
             THEN [ret |-> TRUE, txn |-> done,
                   accounts |-> [accts EXCEPT ![to] = deposit(accts[to], t.amount)]]
             ELSE fail
        ELSE IF t.transaction_type = "adjustment" /\ (from # None \/ to # None)
        THEN [ret |-> TRUE, txn |-> done, accounts |-> accts]
        ELSE fail

(***************************************************************************)
(* The store (src/db.py): tables of rows keyed by id.                      *)
(***************************************************************************)
get_all_accounts == [a \in DOMAIN accounts |-> Account_from_dict(accounts[a])]

save_account(table, id, a) ==
    IF id \in DOMAIN table THEN [table EXCEPT ![id] = Account_to_dict(a)]
    ELSE table @@ (id :> Account_to_dict(a))

save_transaction(table, id, t) ==
    IF id \in DOMAIN table THEN [table EXCEPT ![id] = Transaction_to_dict(t)]
    ELSE table @@ (id :> Transaction_to_dict(t))

get_transaction(id) == Transaction_from_dict(transactions[id])

\* a fresh id (uuid4) for a new row of a table
NewId(table) == Cardinality(DOMAIN table) + 1

Bool(b) == IF b THEN "True" ELSE "False"

Called(op, acct, id, ret) == [op |-> op, acct |-> acct, id |-> id, ret |-> ret]

\* the threads of control that call into the store, and a caller that is idle
Callers == {"thread1", "thread2"}

Idle == [op |-> "idle"]

NoCalls == [c \in Callers |-> Idle]

(***************************************************************************)
(* Calls on the ledger.                                                    *)
(***************************************************************************)
\* Account.deposit on a stored account
AccountDeposit(a, amount) ==
    /\ a \in DOMAIN accounts
    /\ accounts[a].balance + amount <= MaxBalance
    /\ accounts' = save_account(accounts, a, deposit(Account_from_dict(accounts[a]), amount))
    /\ last' = Called("deposit", a, 0, "None")
    /\ UNCHANGED <<transactions, debts, subscriptions, today, refused, calls>>

\* Account.withdraw on a stored account
AccountWithdraw(a, amount) ==
    /\ a \in DOMAIN accounts
    /\ accounts[a].account_type = "debit" => accounts[a].balance - amount >= -MaxBalance
    /\ LET r == withdraw(Account_from_dict(accounts[a]), amount)
       IN  /\ accounts' = save_account(accounts, a, r.account)
           /\ last' = Called("withdraw", a, 0, Bool(r.ret))
    /\ UNCHANGED <<transactions, debts, subscriptions, today, refused, calls>>

\* PendingView.approve_transaction: load, execute, and save what execute changed
approve_transaction(transaction_id) ==
    /\ transaction_id \in DOMAIN transactions
    /\ LET transaction == Transaction_from_dict(transactions[transaction_id])
           r == execute(transaction, get_all_accounts)
           from == r.txn.from_account_id
           to == r.txn.to_account_id
           saved_from == IF from # None /\ from \in DOMAIN r.accounts
                         THEN save_account(accounts, from, r.accounts[from])
                         ELSE accounts
           saved_to == IF to # None /\ to \in DOMAIN r.accounts
                       THEN save_account(saved_from, to, r.accounts[to])
                       ELSE saved_from
       IN  /\ IF r.ret
              THEN /\ accounts' = saved_to
                   /\ transactions' = save_transaction(transactions, transaction_id, r.txn)
              ELSE UNCHANGED <<accounts, transactions>>
           /\ last' = Called("execute", None, transaction_id, Bool(r.ret))
           /\ refused' = IF r.ret THEN refused ELSE refused \cup {transaction_id}
    /\ UNCHANGED <<debts, subscriptions, today, calls>>

(***************************************************************************)
(* Spec: one transaction of any shape, executed against an account of each *)
(* type; deposits in between let a refused withdraw pass later.             *)
(***************************************************************************)
StartDate == Date(2024, 1, 10)

AccountRefs == AccountIds \cup {None, GoneId}

InitAccounts ==
    accounts = [a \in AccountIds |->
                  Account_to_dict(Account(a, IF a = "credit" THEN 0 ELSE 1,
                                          IF a = "credit" THEN CreditLimit ELSE 0))]

Init ==
    /\ InitAccounts
    /\ \E type \in TransactionTypes, from \in AccountRefs, to \in AccountRefs,
          amount \in Amounts, status \in TransactionStatuses :
          transactions = (1 :> Transaction_to_dict(
                                 Transaction(StartDate, amount, type, from, to, status)))
    /\ debts = <<>>
    /\ subscriptions = <<>>
    /\ today = StartDate
    /\ last = Called("init", None, 0, "None")
    /\ refused = {}
    /\ calls = NoCalls

Next ==
    \/ \E a \in AccountIds, amount \in Amounts : AccountDeposit(a, amount)
    \/ \E id \in DOMAIN transactions : approve_transaction(id)

Spec == Init /\ [][Next]_vars

(***************************************************************************)
(* SpecAccount: deposits and withdrawals on an account of each type.       *)
(***************************************************************************)
InitAccount ==
    /\ InitAccounts
    /\ transactions = <<>>
    /\ debts = <<>>
    /\ subscriptions = <<>>
    /\ today = StartDate
    /\ last = Called("init", None, 0, "None")
    /\ refused = {}
    /\ calls = NoCalls

NextAccount ==
    \/ \E a \in AccountIds, amount \in Amounts : AccountDeposit(a, amount)
    \/ \E a \in AccountIds, amount \in Amounts : AccountWithdraw(a, amount)

SpecAccount == InitAccount /\ [][NextAccount]_vars

(***************************************************************************)
(* Debt (src/models.py).                                                   *)
(***************************************************************************)
Epsilon == 1         \* the 0.01 tolerance of the paid test, in hundredths

Debt(amount, due_date, is_receivable, linked_account_id) ==
    [amount |-> amount, due_date |-> due_date, is_receivable |-> is_receivable,
     linked_account_id |-> linked_account_id, status |-> "pending",
     currency |-> "CHF", payment_history |-> <<>>]

json_dumps(v) == [json |-> v]

json_loads(text) == text.json

\* to_dict that stores an empty payment history
Debt_to_dict_no_history(d) ==
    [d EXCEPT !.due_date = isoformat(d.due_date),
              !.is_receivable = IF d.is_receivable THEN 1 ELSE 0,
              !.payment_history = json_dumps(<<>>)]

Debt_to_dict(d) ==
    [d EXCEPT !.due_date = isoformat(d.due_date),
              !.is_receivable = IF d.is_receivable THEN 1 ELSE 0,
              !.payment_history = json_dumps(d.payment_history)]

Debt_from_dict(data) ==
    [data EXCEPT !.due_date = strptime(data.due_date),
                 !.is_receivable = (data.is_receivable # 0),
                 !.payment_history = json_loads(data.payment_history)]

RECURSIVE SumAmounts(_)
SumAmounts(history) ==
    IF history = <<>> THEN 0
    ELSE history[1].amount + SumAmounts(Tail(history))

get_paid_amount(d) == SumAmounts(d.payment_history)

get_remaining_amount(d) == d.amount - get_paid_amount(d)

Abs(x) == IF x < 0 THEN -x ELSE x

PaymentRecord(date, amount, notes) ==
    [date |-> isoformat(date), amount |-> amount, notes |-> notes]

\* the payment transaction with the two directions exchanged
PaymentTransaction_swapped(d, date, amount) ==
    IF d.is_receivable
    THEN Transaction(date, amount, "spending", d.linked_account_id, None, "pending")
    ELSE Transaction(date, amount, "income", None, d.linked_account_id, "pending")

\* the pending transaction a payment of a debt is recorded with
PaymentTransaction(d, date, amount) ==
    IF d.is_receivable
    THEN Transaction(date, amount, "income", None, d.linked_account_id, "pending")
    ELSE Transaction(date, amount, "spending", d.linked_account_id, None, "pending")

NoTransaction == Transaction(StartDate, 0, "", None, None, "")

\* what a call of a Debt method gives: "Transaction", "None" or "raise",
\* the debt as the call leaves it and the transaction returned
DebtResult(ret, d, txn) == [ret |-> ret, debt |-> d, txn |-> txn]

\* make_partial_payment without the test against the remaining amount
make_partial_payment_unchecked(d, amount, transaction_date, notes) ==
    IF d.status = "paid" THEN DebtResult("None", d, NoTransaction)
    ELSE IF amount <= 0 THEN DebtResult("raise", d, NoTransaction)
    ELSE IF d.linked_account_id = None THEN DebtResult("None", d, NoTransaction)
    ELSE LET history == Append(d.payment_history,
                               PaymentRecord(transaction_date, amount, notes))
             paid == [d EXCEPT !.payment_history = history]
         IN  DebtResult("Transaction",
                        [paid EXCEPT !.status =
                             IF Abs(get_paid_amount(paid) - d.amount) < Epsilon
                             THEN "paid" ELSE "partial"],
                        PaymentTransaction(d, transaction_date, amount))

\* make_partial_payment that leaves a fully repaid debt partial
make_partial_payment_never_paid(d, amount, transaction_date, notes) ==
    IF d.status = "paid" THEN DebtResult("None", d, NoTransaction)
    ELSE IF amount <= 0 THEN DebtResult("raise", d, NoTransaction)
    ELSE IF amount > get_remaining_amount(d) THEN DebtResult("raise", d, NoTransaction)
    ELSE IF d.linked_account_id = None THEN DebtResult("None", d, NoTransaction)
    ELSE LET history == Append(d.payment_history,
                               PaymentRecord(transaction_date, amount, notes))
             paid == [d EXCEPT !.payment_history = history]
         IN  DebtResult("Transaction", [paid EXCEPT !.status = "partial"],
                        PaymentTransaction(d, transaction_date, amount))

\* make_partial_payment that records the payment before it validates it
make_partial_payment_record_first(d, amount, transaction_date, notes) ==
    LET history == Append(d.payment_history,
                          PaymentRecord(transaction_date, amount, notes))
        paid == [d EXCEPT !.payment_history = history]
    IN  IF d.status = "paid" THEN DebtResult("None", d, NoTransaction)
        ELSE IF amount <= 0 THEN DebtResult("raise", paid, NoTransaction)
        ELSE IF amount > get_remaining_amount(d) THEN DebtResult("raise", paid, NoTransaction)
        ELSE IF d.linked_account_id = None THEN DebtResult("None", d, NoTransaction)
        ELSE DebtResult("Transaction",
                        [paid EXCEPT !.status =
                             IF Abs(get_paid_amount(paid) - d.amount) < Epsilon
                             THEN "paid" ELSE "partial"],
                        PaymentTransaction(d, transaction_date, amount))

\* make_partial_payment that records the payment on a debt without an account
make_partial_payment_unlinked_recorded(d, amount, transaction_date, notes) ==
    LET history == Append(d.payment_history,
                          PaymentRecord(transaction_date, amount, notes))
        paid == [d EXCEPT !.payment_history = history]
        recorded == [paid EXCEPT !.status =
                         IF Abs(get_paid_amount(paid) - d.amount) < Epsilon
                         THEN "paid" ELSE "partial"]
    IN  IF d.status = "paid" THEN DebtResult("None", d, NoTransaction)
        ELSE IF amount <= 0 THEN DebtResult("raise", d, NoTransaction)
        ELSE IF amount > get_remaining_amount(d) THEN DebtResult("raise", d, NoTransaction)
        ELSE IF d.linked_account_id = None THEN DebtResult("None", recorded, NoTransaction)
        ELSE DebtResult("Transaction", recorded,
                        PaymentTransaction(d, transaction_date, amount))

make_partial_payment(d, amount, transaction_date, notes) ==
    IF d.status = "paid" THEN DebtResult("None", d, NoTransaction)
    ELSE IF amount <= 0 THEN DebtResult("raise", d, NoTransaction)
    ELSE IF amount > get_remaining_amount(d) THEN DebtResult("raise", d, NoTransaction)
    ELSE IF d.linked_account_id = None THEN DebtResult("None", d, NoTransaction)
    ELSE LET history == Append(d.payment_history,
                               PaymentRecord(transaction_date, amount, notes))
             paid == [d EXCEPT !.payment_history = history]
         IN  DebtResult("Transaction",
                        [paid EXCEPT !.status =
                             IF Abs(get_paid_amount(paid) - d.amount) < Epsilon
                             THEN "paid" ELSE "partial"],
                        PaymentTransaction(d, transaction_date, amount))

\* mark_as_paid that pays the whole amount of the debt again
mark_as_paid_whole_amount(d, transaction_date) ==
    IF d.status = "paid" THEN DebtResult("None", d, NoTransaction)
    ELSE IF get_remaining_amount(d) <= 0
         THEN DebtResult("None", [d EXCEPT !.status = "paid"], NoTransaction)
         ELSE IF d.linked_account_id = None THEN DebtResult("None", d, NoTransaction)
         ELSE DebtResult("Transaction",
                         [d EXCEPT !.payment_history =
                                       Append(@, PaymentRecord(transaction_date, d.amount,
                                                               "Final payment")),
                                   !.status = "paid"],
                         PaymentTransaction(d, transaction_date, d.amount))

\* mark_as_paid that settles a debt with nothing remaining only when an
\* account is linked
mark_as_paid_settled_needs_account(d, transaction_date) ==
    IF d.status = "paid" THEN DebtResult("None", d, NoTransaction)
    ELSE LET remaining == get_remaining_amount(d)
         IN  IF d.linked_account_id = None THEN DebtResult("None", d, NoTransaction)
             ELSE IF remaining <= 0
             THEN DebtResult("None", [d EXCEPT !.status = "paid"], NoTransaction)
             ELSE DebtResult("Transaction",
                             [d EXCEPT !.payment_history =
                                           Append(@, PaymentRecord(transaction_date, remaining,
                                                                   "Final payment")),
                                       !.status = "paid"],
                             PaymentTransaction(d, transaction_date, remaining))

mark_as_paid(d, transaction_date) ==
    IF d.status = "paid" THEN DebtResult("None", d, NoTransaction)
    ELSE LET remaining == get_remaining_amount(d)
         IN  IF remaining <= 0
             THEN DebtResult("None", [d EXCEPT !.status = "paid"], NoTransaction)
             ELSE IF d.linked_account_id = None THEN DebtResult("None", d, NoTransaction)
             ELSE DebtResult("Transaction",
                             [d EXCEPT !.payment_history =
                                           Append(@, PaymentRecord(transaction_date, remaining,
                                                                   "Final payment")),
                                       !.status = "paid"],
                             PaymentTransaction(d, transaction_date, remaining))

(***************************************************************************)
(* Calls on debts: the store's rows and its overdue sweep (src/db.py) and  *)
(* the handlers of src/ui/debts.py.                                        *)
(***************************************************************************)
get_debt(id) == Debt_from_dict(debts[id])

save_debt(table, id, d) ==
    IF id \in DOMAIN table THEN [table EXCEPT ![id] = Debt_to_dict(d)]
    ELSE table @@ (id :> Debt_to_dict(d))

\* DebtsView.add_debt: a non-positive amount is refused, else a pending debt is stored
add_debt(amount, due_date, is_receivable, linked_account_id) ==
    /\ Cardinality(DOMAIN debts) < MaxDebts
    /\ IF amount <= 0
       THEN /\ UNCHANGED debts
            /\ last' = Called("add_debt", None, 0, "raise")
       ELSE /\ debts' = save_debt(debts, NewId(debts),
                                  Debt(amount, due_date, is_receivable, linked_account_id))
            /\ last' = Called("add_debt", None, NewId(debts), "None")
    /\ UNCHANGED <<accounts, transactions, subscriptions, today, refused, calls>>

\* what the handlers do with the result of a Debt method: a raise leaves the
\* store as it is, else the transaction returned (if any) and the debt are saved
SaveDebtResult(op, id, r) ==
    /\ r.ret = "Transaction" => Cardinality(DOMAIN transactions) < MaxTxns
    /\ IF r.ret = "raise"
       THEN UNCHANGED <<debts, transactions>>
       ELSE /\ debts' = save_debt(debts, id, r.debt)
            /\ transactions' = IF r.ret = "Transaction"
                               THEN save_transaction(transactions, NewId(transactions), r.txn)
                               ELSE transactions
    /\ last' = Called(op, None, id, r.ret)
    /\ UNCHANGED <<accounts, subscriptions, today, refused, calls>>

\* make_payment: Debt.make_partial_payment on a stored debt
MakePartialPayment(id, amount) ==
    /\ id \in DOMAIN debts
    /\ SaveDebtResult("make_partial_payment", id,
                      make_partial_payment(get_debt(id), amount, today, ""))

\* perform_mark_as_paid: Debt.mark_as_paid on a stored debt
MarkAsPaid(id) ==
    /\ id \in DOMAIN debts
    /\ SaveDebtResult("mark_as_paid", id, mark_as_paid(get_debt(id), today))

\* the overdue sweep with debts due today taken as overdue
OverdueRows_due_today ==
    {id \in DOMAIN debts :
        /\ TextLeq(debts[id].due_date, isoformat(today))
        /\ debts[id].status = "pending"}

\* the rows the overdue sweep updates
OverdueRows == {id \in DOMAIN debts :
                  /\ TextLess(debts[id].due_date, isoformat(today))
                  /\ debts[id].status = "pending"}

check_and_update_overdue_debts ==
    /\ debts' = [id \in DOMAIN debts |->
                   IF id \in OverdueRows THEN [debts[id] EXCEPT !.status = "overdue"]
                   ELSE debts[id]]
    /\ last' = Called("check_and_update_overdue_debts", None, Cardinality(OverdueRows), "None")
    /\ UNCHANGED <<accounts, transactions, subscriptions, today, refused, calls>>

(***************************************************************************)
(* SpecDebt: debts are created, paid in parts or in full, and swept.       *)
(***************************************************************************)
DueDates == {Date(2024, 1, 9), Date(2024, 1, 10)}   \* the day before today, and today
DebtAmounts == 0..MaxDebtAmount
PaymentAmounts == 0..(MaxDebtAmount + 1)

InitDebt ==
    /\ InitAccounts
    /\ transactions = <<>>
    /\ debts = <<>>
    /\ subscriptions = <<>>
    /\ today = StartDate
    /\ last = Called("init", None, 0, "None")
    /\ refused = {}
    /\ calls = NoCalls

NextDebt ==
    \/ \E amount \in DebtAmounts, due \in DueDates, recv \in BOOLEAN,
          linked \in {None, "debit"} : add_debt(amount, due, recv, linked)
    \/ \E id \in DOMAIN debts, amount \in PaymentAmounts : MakePartialPayment(id, amount)
    \/ \E id \in DOMAIN debts : MarkAsPaid(id)
    \/ check_and_update_overdue_debts

SpecDebt == InitDebt /\ [][NextDebt]_vars

(***************************************************************************)
(* DebtsView.edit_debt (src/ui/debts.py) and SpecDebtEdit: one stored debt *)
(* that is paid, marked as paid and edited.  The edit dialog keeps the     *)
(* debt it read when it was opened; saving stores that object with the     *)
(* fields of the form.                                                     *)
(***************************************************************************)
EditingDebt(c) == calls[c].op = "edit_debt"

\* edit_debt: the dialog is opened on the debt read from the store
edit_debt(c, debt_id) ==
    /\ calls[c] = Idle
    /\ debt_id \in DOMAIN debts
    /\ calls' = [calls EXCEPT ![c] = [op |-> "edit_debt", id |-> debt_id,
                                      debt |-> get_debt(debt_id)]]
    /\ last' = Called("edit_debt", None, debt_id, "None")
    /\ UNCHANGED <<accounts, transactions, debts, subscriptions, today, refused>>

\* save_edit of the dialog: a non-positive amount is refused and the dialog
\* stays open, else the debt of the dialog is stored with the new fields
DebtsView_save_edit(c, amount, due_date, linked_account_id) ==
    /\ EditingDebt(c)
    /\ IF amount <= 0
       THEN /\ last' = Called("save_edit_debt", None, calls[c].id, "raise")
            /\ UNCHANGED <<debts, calls>>
       ELSE /\ debts' = save_debt(debts, calls[c].id,
                                  [calls[c].debt
                                      EXCEPT !.amount = amount, !.due_date = due_date,
                                             !.linked_account_id = linked_account_id])
            /\ calls' = [calls EXCEPT ![c] = Idle]
            /\ last' = Called("save_edit_debt", None, calls[c].id, "None")
    /\ UNCHANGED <<accounts, transactions, subscriptions, today, refused>>

\* cancel_edit: the dialog is closed
cancel_edit(c) ==
    /\ EditingDebt(c)
    /\ calls' = [calls EXCEPT ![c] = Idle]
    /\ last' = Called("cancel_edit", None, calls[c].id, "None")
    /\ UNCHANGED <<accounts, transactions, debts, subscriptions, today, refused>>

InitDebtEdit ==
    /\ InitAccounts
    /\ transactions = <<>>
    /\ \E recv \in BOOLEAN, linked \in {None, "debit"} :
          debts = (1 :> Debt_to_dict(Debt(MaxDebtAmount, StartDate, recv, linked)))
    /\ subscriptions = <<>>
    /\ today = StartDate
    /\ last = Called("init", None, 0, "None")
    /\ refused = {}
    /\ calls = NoCalls

NextDebtEdit ==
    \/ \E id \in DOMAIN debts : edit_debt("thread1", id)
    \/ \E amount \in DebtAmounts, linked \in {None, "debit"} :
          DebtsView_save_edit("thread1", amount, calls["thread1"].debt.due_date, linked)
    \/ cancel_edit("thread1")
    \/ \E id \in DOMAIN debts, amount \in PaymentAmounts : MakePartialPayment(id, amount)
    \/ \E id \in DOMAIN debts : MarkAsPaid(id)

SpecDebtEdit == InitDebtEdit /\ [][NextDebtEdit]_vars

(***************************************************************************)
(* Subscription (src/models.py).                                           *)
(***************************************************************************)
Frequencies == {"monthly", "quarterly", "yearly"}
SubscriptionStatuses == {"active", "paused", "canceled"}

Subscription(amount, frequency, next_payment_date, linked_account_id) ==
    [amount |-> amount, frequency |-> frequency, next_payment_date |-> next_payment_date,
     linked_account_id |-> linked_account_id, status |-> "active", currency |-> "CHF"]

Subscription_to_dict(sub) ==
    [sub EXCEPT !.next_payment_date = isoformat(sub.next_payment_date)]

Subscription_from_dict(data) ==
    [data EXCEPT !.next_payment_date = strptime(data.next_payment_date)]

\* generate_pending_transaction without the test for a linked account
generate_pending_transaction_unlinked(sub) ==
    IF sub.status # "active"
    THEN [ret |-> FALSE, txn |-> NoTransaction]
    ELSE [ret |-> TRUE,
          txn |-> Transaction(sub.next_payment_date, sub.amount, "spending",
                              sub.linked_account_id, None, "pending")]

\* generate_pending_transaction: whether a transaction is returned, and which
generate_pending_transaction(sub) ==
    IF sub.status # "active" \/ sub.linked_account_id = None
    THEN [ret |-> FALSE, txn |-> NoTransaction]
    ELSE [ret |-> TRUE,
          txn |-> Transaction(sub.next_payment_date, sub.amount, "spending",
                              sub.linked_account_id, None, "pending")]

\* date + relativedelta(years=n): 29 February is clipped in a common year
AddYears(dt, n) ==
    LET dim == DaysInMonth(dt.year + n, dt.month)
    IN  Date(dt.year + n, dt.month, IF dt.day > dim THEN dim ELSE dt.day)

\* calculate_next_payment_date that advances every subscription by a month
calculate_next_payment_date_monthly(sub) ==
    [sub EXCEPT !.next_payment_date = AddMonths(@, 1)]

\* calculate_next_payment_date that advances only on a frequency it knows
calculate_next_payment_date_known_only(sub) ==
    [sub EXCEPT !.next_payment_date =
        IF sub.frequency = "monthly" THEN AddMonths(@, 1)
        ELSE IF sub.frequency = "quarterly" THEN AddMonths(@, 3)
        ELSE IF sub.frequency = "yearly" THEN AddYears(@, 1)
        ELSE @]

\* calculate_next_payment_date(True): the subscription with its date advanced
calculate_next_payment_date(sub) ==
    [sub EXCEPT !.next_payment_date =
        IF sub.frequency = "monthly" THEN AddMonths(@, 1)
        ELSE IF sub.frequency = "quarterly" THEN AddMonths(@, 3)
        ELSE IF sub.frequency = "yearly" THEN AddYears(@, 1)
        ELSE AddMonths(@, 1)]

(***************************************************************************)
(* Calls on subscriptions: the billing sweep of the store (src/db.py) and  *)
(* the handlers of src/ui/subscriptions.py.                                *)
(***************************************************************************)
save_subscription(table, id, sub) ==
    IF id \in DOMAIN table THEN [table EXCEPT ![id] = Subscription_to_dict(sub)]
    ELSE table @@ (id :> Subscription_to_dict(sub))

\* SubscriptionsView.add_subscription: a non-positive amount is refused,
\* else an active subscription is stored
add_subscription(amount, frequency, next_payment_date, linked_account_id) ==
    /\ Cardinality(DOMAIN subscriptions) < MaxSubs
    /\ IF amount <= 0
       THEN /\ UNCHANGED subscriptions
            /\ last' = Called("add_subscription", None, 0, "raise")
       ELSE /\ subscriptions' =
                   save_subscription(subscriptions, NewId(subscriptions),
                                     Subscription(amount, frequency, next_payment_date,
                                                  linked_account_id))
            /\ last' = Called("add_subscription", None, NewId(subscriptions), "None")
    /\ UNCHANGED <<accounts, transactions, debts, today, refused, calls>>

toggle_subscription_status(subscription_id, new_status) ==
    /\ subscription_id \in DOMAIN subscriptions
    /\ subscriptions' =
           save_subscription(subscriptions, subscription_id,
                             [Subscription_from_dict(subscriptions[subscription_id])
                                  EXCEPT !.status = new_status])
    /\ last' = Called("toggle_subscription_status", None, subscription_id, new_status)
    /\ UNCHANGED <<accounts, transactions, debts, today, refused, calls>>

\* the rows of the sweep, those due on the day itself left out
DueRows_before_today(subs, day) ==
    {id \in DOMAIN subs :
        /\ subs[id].status = "active"
        /\ TextLess(subs[id].next_payment_date, isoformat(day))}

\* the rows the billing sweep selects
DueRows(subs, day) ==
    {id \in DOMAIN subs :
        /\ subs[id].status = "active"
        /\ TextLeq(subs[id].next_payment_date, isoformat(day))}

\* the loop of the sweep over the selected rows: the tables as it leaves
\* them and the number of transactions generated
RECURSIVE BillEach(_, _, _)
BillEach(ids, txns, subs) ==
    IF ids = {} THEN [transactions |-> txns, subscriptions |-> subs, generated |-> 0]
    ELSE LET id == CHOOSE i \in ids : \A j \in ids : i <= j
             subscription == Subscription_from_dict(subs[id])
             g == generate_pending_transaction(subscription)
         IN  IF g.ret
             THEN LET rest == BillEach(ids \ {id},
                                       save_transaction(txns, NewId(txns), g.txn),
                                       save_subscription(subs, id,
                                           calculate_next_payment_date(subscription)))
                  IN  [rest EXCEPT !.generated = @ + 1]
             ELSE BillEach(ids \ {id}, txns, subs)

generate_pending_subscription_transactions ==
    LET r == BillEach(DueRows(subscriptions, today), transactions, subscriptions)
    IN  /\ Cardinality(DOMAIN r.transactions) <= MaxTxns
        /\ transactions' = r.transactions
        /\ subscriptions' = r.subscriptions
        /\ last' = Called("generate_pending_subscription_transactions", None,
                          r.generated, "None")
        /\ UNCHANGED <<accounts, debts, today, refused, calls>>

\* date.today() moves on to a later day on which the application is used
AdvanceClock(day) ==
    /\ TextLess(isoformat(today), isoformat(day))
    /\ today' = day
    /\ last' = Called("clock", None, 0, "None")
    /\ UNCHANGED <<accounts, transactions, debts, subscriptions, refused, calls>>

(***************************************************************************)
(* SpecSub: subscriptions are created, paused, resumed or canceled, and    *)
(* billed by the sweep as the days go by.                                  *)
(***************************************************************************)
PaymentDates == {Date(2024, 1, 15), Date(2024, 1, 31)}
OpenDates == {Date(2024, 2, 1), Date(2024, 4, 1)}

InitSub ==
    /\ InitAccounts
    /\ transactions = <<>>
    /\ debts = <<>>
    /\ subscriptions = <<>>
    /\ today = StartDate
    /\ last = Called("init", None, 0, "None")
    /\ refused = {}
    /\ calls = NoCalls

NextSub ==
    \/ \E amount \in 0..MaxAmount, frequency \in Frequencies, day \in PaymentDates,
          linked \in {None, "debit"} : add_subscription(amount, frequency, day, linked)
    \/ \E id \in DOMAIN subscriptions, status \in SubscriptionStatuses :
          toggle_subscription_status(id, status)
    \/ generate_pending_subscription_transactions
    \/ \E day \in OpenDates : AdvanceClock(day)

SpecSub == InitSub /\ [][NextSub]_vars

(***************************************************************************)
(* SpecCatchUp: the sweep is called again and again (DashboardView         *)
(* .update_data calls it on every refresh) on one day, on a store with one *)
(* subscription that is up to MaxTxns periods behind.  The frequency may   *)
(* be one that calculate_next_payment_date does not know.                  *)
(***************************************************************************)
StoredFrequencies == Frequencies \cup {"weekly"}

CatchUpDates == {Date(2024, 1, 31), Date(2024, 2, 29), Date(2024, 3, 15)}
CatchUpDays == {Date(2024, 2, 29), Date(2024, 3, 1), Date(2024, 4, 30), Date(2025, 2, 28)}

\* the number of periods (of 12, 3 or 1 months) from the date up to the day
RECURSIVE PeriodsBehind(_, _, _)
PeriodsBehind(date, frequency, day) ==
    IF TextLeq(isoformat(date), isoformat(day))
    THEN 1 + PeriodsBehind(AddMonths(date, IF frequency = "yearly" THEN 12
                                           ELSE IF frequency = "quarterly" THEN 3 ELSE 1),
                           frequency, day)
    ELSE 0

InitCatchUp ==
    /\ InitAccounts
    /\ transactions = <<>>
    /\ debts = <<>>
    /\ today \in CatchUpDays
    /\ \E amount \in Amounts, frequency \in StoredFrequencies, date \in CatchUpDates,
          linked \in {None, "debit"}, status \in {"active", "paused"} :
          LET sub == [Subscription(amount, frequency, date, linked) EXCEPT !.status = status]
          IN  /\ PeriodsBehind(date, frequency, today) <= MaxTxns
              /\ subscriptions = (1 :> Subscription_to_dict(sub))
    /\ last = Called("init", None, 0, "None")
    /\ refused = {}
    /\ calls = NoCalls

NextCatchUp == generate_pending_subscription_transactions

SpecCatchUp == InitCatchUp /\ [][NextCatchUp]_vars

\* the sweep is called as long as the application is used
SpecCatchUpFair == SpecCatchUp /\ WF_vars(generate_pending_subscription_transactions)

(***************************************************************************)
(* SpecBilling: the handlers of SubscriptionsView (src/ui/subscriptions.py)*)
(* call by call, next to the sweep.  The sweep runs under the store lock   *)
(* as a whole; a handler reads the subscription in one call of the store   *)
(* and saves the whole row in another.                                     *)
(***************************************************************************)
\* subscription = self.db.get_subscription(subscription_id)
toggle_get_subscription(c, subscription_id, new_status) ==
    /\ calls[c] = Idle
    /\ subscription_id \in DOMAIN subscriptions
    /\ calls' = [calls EXCEPT ![c] =
                    [op |-> "toggle_subscription_status", id |-> subscription_id,
                     new_status |-> new_status,
                     subscription |-> Subscription_from_dict(subscriptions[subscription_id])]]
    /\ UNCHANGED <<accounts, transactions, debts, subscriptions, today, last, refused>>

\* subscription.status = new_status; self.db.save_subscription(subscription)
toggle_save_subscription(c) ==
    /\ calls[c].op = "toggle_subscription_status"
    /\ subscriptions' =
           save_subscription(subscriptions, calls[c].id,
                             [calls[c].subscription EXCEPT !.status = calls[c].new_status])
    /\ calls' = [calls EXCEPT ![c] = Idle]
    /\ last' = Called("toggle_subscription_status", None, calls[c].id, calls[c].new_status)
    /\ UNCHANGED <<accounts, transactions, debts, today, refused>>

\* edit_subscription: the dialog is opened on the subscription as stored
edit_subscription(c, subscription_id) ==
    /\ calls[c] = Idle
    /\ subscription_id \in DOMAIN subscriptions
    /\ calls' = [calls EXCEPT ![c] =
                    [op |-> "edit_subscription", id |-> subscription_id,
                     subscription |-> Subscription_from_dict(subscriptions[subscription_id])]]
    /\ last' = Called("edit_subscription", None, subscription_id, "None")
    /\ UNCHANGED <<accounts, transactions, debts, subscriptions, today, refused>>

\* save_edit of the dialog with a new amount, the other fields of the form
\* left as the dialog showed them: a non-positive amount is refused, else
\* the subscription object of the dialog is stored
SubscriptionsView_save_edit(c, amount) ==
    /\ calls[c].op = "edit_subscription"
    /\ IF amount <= 0
       THEN /\ last' = Called("save_edit_subscription", None, calls[c].id, "raise")
            /\ UNCHANGED <<subscriptions, calls>>
       ELSE /\ subscriptions' =
                   save_subscription(subscriptions, calls[c].id,
                                     [calls[c].subscription EXCEPT !.amount = amount])
            /\ calls' = [calls EXCEPT ![c] = Idle]
            /\ last' = Called("save_edit_subscription", None, calls[c].id, "None")
    /\ UNCHANGED <<accounts, transactions, debts, today, refused>>

NextBilling ==
    \/ generate_pending_subscription_transactions
    \/ \E id \in DOMAIN subscriptions, new_status \in {"active", "paused"} :
          toggle_get_subscription("thread1", id, new_status)
    \/ toggle_save_subscription("thread1")
    \/ \E id \in DOMAIN subscriptions : edit_subscription("thread2", id)
    \/ \E amount \in 0..MaxAmount : SubscriptionsView_save_edit("thread2", amount)

SpecBilling == InitCatchUp /\ [][NextBilling]_vars

(***************************************************************************)
(* Database.get_net_worth (src/db.py): three reads of the store, each one  *)
(* taken under the store lock on its own, and the sums over what they      *)
(* returned, every amount taken in CHF.                                    *)
(***************************************************************************)
MaxWrites == 2       \* store calls of other threads during one get_net_worth call

\* a delete that empties the table
delete_row_all(table, id) == IF id \in DOMAIN table THEN <<>> ELSE table

delete_row(table, id) == [i \in DOMAIN table \ {id} |-> table[i]]

get_all_debts == [id \in DOMAIN debts |-> Debt_from_dict(debts[id])]

get_all_subscriptions(status) ==
    [id \in {i \in DOMAIN subscriptions : subscriptions[i].status = status} |->
        Subscription_from_dict(subscriptions[id])]

\* date + timedelta(days=n)
RECURSIVE AddDays(_, _)
AddDays(dt, n) ==
    LET dim == DaysInMonth(dt.year, dt.month)
    IN  IF dt.day + n <= dim THEN Date(dt.year, dt.month, dt.day + n)
        ELSE AddDays(IF dt.month = 12 THEN Date(dt.year + 1, 1, 1)
                     ELSE Date(dt.year, dt.month + 1, 1),
                     n - (dim - dt.day + 1))

\* a <= b on dates
DateLeq(a, b) ==
    \/ a.year < b.year
    \/ a.year = b.year /\ a.month < b.month
    \/ a.year = b.year /\ a.month = b.month /\ a.day <= b.day

\* the sum of the values of a function
RECURSIVE SumOf(_)
SumOf(f) ==
    IF DOMAIN f = {} THEN 0
    ELSE LET x == CHOOSE i \in DOMAIN f : TRUE
         IN  f[x] + SumOf([i \in DOMAIN f \ {x} |-> f[i]])

\* CurrencyConverter.convert_to_chf: the amount times the currency's rate of
\* a fixed table; a franc is worth a franc and a euro stands at two
convert_to_chf(amount, currency) == amount * (IF currency = "EUR" THEN 2 ELSE 1)

\* the value in CHF as get_liquidity and get_net_worth take it
InChf(amount, currency) ==
    IF currency = "CHF" THEN amount ELSE convert_to_chf(amount, currency)

\* get_net_worth that leaves out the debts that are paid in part or overdue
net_worth_pending_debts_only(accts, dbts, subs, day) ==
    LET assets ==
            SumOf([a \in DOMAIN accts |->
                     IF accts[a].balance > 0
                     THEN InChf(accts[a].balance, accts[a].currency) ELSE 0])
            + SumOf([d \in DOMAIN dbts |->
                       IF dbts[d].is_receivable /\ dbts[d].status = "pending"
                       THEN InChf(get_remaining_amount(dbts[d]), dbts[d].currency) ELSE 0])
        liabilities ==
            SumOf([a \in DOMAIN accts |->
                     IF accts[a].balance < 0
                     THEN InChf(Abs(accts[a].balance), accts[a].currency) ELSE 0])
            + SumOf([d \in DOMAIN dbts |->
                       IF ~dbts[d].is_receivable /\ dbts[d].status = "pending"
                       THEN InChf(get_remaining_amount(dbts[d]), dbts[d].currency) ELSE 0])
            + SumOf([i \in DOMAIN subs |->
                       IF DateLeq(subs[i].next_payment_date, AddDays(day, 30))
                       THEN InChf(subs[i].amount, subs[i].currency) ELSE 0])
    IN  [assets |-> assets, liabilities |-> liabilities, net_worth |-> assets - liabilities]

\* the sums of get_net_worth over the accounts, the debts and the active
\* subscriptions it has read
net_worth(accts, dbts, subs, day) ==
    LET assets ==
            SumOf([a \in DOMAIN accts |->
                     IF accts[a].balance > 0
                     THEN InChf(accts[a].balance, accts[a].currency) ELSE 0])
            + SumOf([d \in DOMAIN dbts |->
                       IF dbts[d].is_receivable /\ dbts[d].status # "paid"
                       THEN InChf(get_remaining_amount(dbts[d]), dbts[d].currency) ELSE 0])
        liabilities ==
            SumOf([a \in DOMAIN accts |->
                     IF accts[a].balance < 0
                     THEN InChf(Abs(accts[a].balance), accts[a].currency) ELSE 0])
            + SumOf([d \in DOMAIN dbts |->
                       IF ~dbts[d].is_receivable /\ dbts[d].status # "paid"
                       THEN InChf(get_remaining_amount(dbts[d]), dbts[d].currency) ELSE 0])
            + SumOf([i \in DOMAIN subs |->
                       IF DateLeq(subs[i].next_payment_date, AddDays(day, 30))
                       THEN InChf(subs[i].amount, subs[i].currency) ELSE 0])
    IN  [assets |-> assets, liabilities |-> liabilities, net_worth |-> assets - liabilities]

\* what get_net_worth would return if it read the whole store in this state
NetWorthNow == net_worth(get_all_accounts, get_all_debts, get_all_subscriptions("active"), today)

NoResult == [assets |-> 0, liabilities |-> 0, net_worth |-> 0]

Reading(c) == calls[c].op = "get_net_worth" /\ calls[c].pc # "done"

\* get_net_worth, first read: self.get_all_accounts()
get_net_worth_accounts(c) ==
    /\ calls[c] = Idle
    /\ calls' = [calls EXCEPT ![c] =
                    [op |-> "get_net_worth", pc |-> "debts",
                     accounts |-> get_all_accounts, debts |-> <<>>,
                     result |-> NoResult, seen |-> {NetWorthNow}, writes |-> 0]]
    /\ UNCHANGED <<accounts, transactions, debts, subscriptions, today, last, refused>>

\* get_net_worth, second read: self.get_all_debts()
get_net_worth_debts(c) ==
    /\ calls[c].op = "get_net_worth" /\ calls[c].pc = "debts"
    /\ calls' = [calls EXCEPT ![c].debts = get_all_debts, ![c].pc = "subscriptions"]
    /\ UNCHANGED <<accounts, transactions, debts, subscriptions, today, last, refused>>

\* get_net_worth, third read: self.get_all_subscriptions(status="active"),
\* then the sums and the return
get_net_worth_subscriptions(c) ==
    /\ calls[c].op = "get_net_worth" /\ calls[c].pc = "subscriptions"
    /\ calls' = [calls EXCEPT
                    ![c].result = net_worth(calls[c].accounts, calls[c].debts,
                                            get_all_subscriptions("active"), today),
                    ![c].pc = "done"]
    /\ last' = Called("get_net_worth", None, 0, "None")
    /\ UNCHANGED <<accounts, transactions, debts, subscriptions, today, refused>>

\* a store call of another thread went through while get_net_worth calls
\* were between two of their reads: the calls in progress lived through
\* the store state it left
StoreCallDuringReads(c, op) ==
    /\ calls[c] = Idle
    /\ \A r \in Callers : Reading(r) => calls[r].writes < MaxWrites
    /\ UNCHANGED <<transactions, today, refused>>
    /\ last' = Called(op, None, 0, "None")
    /\ calls' = [r \in Callers |->
                    IF Reading(r)
                    THEN [calls[r] EXCEPT !.seen = @ \cup {NetWorthNow'}, !.writes = @ + 1]
                    ELSE calls[r]]

SaveAccountCall(c, id, a) ==
    /\ accounts' = save_account(accounts, id, a)
    /\ UNCHANGED <<debts, subscriptions>>
    /\ StoreCallDuringReads(c, "save_account")

DeleteAccountCall(c, id) ==
    /\ accounts' = delete_row(accounts, id)
    /\ UNCHANGED <<debts, subscriptions>>
    /\ StoreCallDuringReads(c, "delete_account")

SaveDebtCall(c, id, d) ==
    /\ debts' = save_debt(debts, id, d)
    /\ UNCHANGED <<accounts, subscriptions>>
    /\ StoreCallDuringReads(c, "save_debt")

DeleteDebtCall(c, id) ==
    /\ debts' = delete_row(debts, id)
    /\ UNCHANGED <<accounts, subscriptions>>
    /\ StoreCallDuringReads(c, "delete_debt")

SaveSubscriptionCall(c, id, sub) ==
    /\ subscriptions' = save_subscription(subscriptions, id, sub)
    /\ UNCHANGED <<accounts, debts>>
    /\ StoreCallDuringReads(c, "save_subscription")

DeleteSubscriptionCall(c, id) ==
    /\ subscriptions' = delete_row(subscriptions, id)
    /\ UNCHANGED <<accounts, debts>>
    /\ StoreCallDuringReads(c, "delete_subscription")

(***************************************************************************)
(* SpecNetWorth: one thread reads the net worth while the other saves and  *)
(* deletes rows of the three tables it reads.                              *)
(***************************************************************************)
InitNetWorth ==
    /\ accounts = ("debit" :> Account_to_dict(Account("debit", 1, 0)))
    /\ transactions = <<>>
    /\ debts = (1 :> Debt_to_dict(Debt(1, Date(2024, 2, 1), FALSE, None)))
    /\ subscriptions = (1 :> Subscription_to_dict(
                                Subscription(1, "monthly", Date(2024, 1, 15), None)))
    /\ today = StartDate
    /\ last = Called("init", None, 0, "None")
    /\ refused = {}
    /\ calls = NoCalls

NextNetWorth ==
    \/ get_net_worth_accounts("thread1")
    \/ get_net_worth_debts("thread1")
    \/ get_net_worth_subscriptions("thread1")
    \/ \E balance \in {-1, 0, 1} :
          SaveAccountCall("thread2", "debit", Account("debit", balance, 0))
    \/ DeleteAccountCall("thread2", "debit")
    \/ \E recv \in BOOLEAN : SaveDebtCall("thread2", 1, Debt(1, Date(2024, 2, 1), recv, None))
    \/ DeleteDebtCall("thread2", 1)
    \/ \E amount \in Amounts :
          SaveSubscriptionCall("thread2", 1,
                               Subscription(amount, "monthly", Date(2024, 1, 15), None))
    \/ DeleteSubscriptionCall("thread2", 1)

SpecNetWorth == InitNetWorth /\ [][NextNetWorth]_vars

(***************************************************************************)
(* PendingView.approve_transaction (src/ui/pending.py) call by call: every *)
(* call of the store takes the store lock, commits and releases the lock,  *)
(* so other threads see, and a failure leaves, the state between two calls.*)
(***************************************************************************)
Approving(c) == calls[c].op = "approve_transaction"

\* transaction = self.db.get_transaction(transaction_id)
approve_get_transaction(c, transaction_id) ==
    /\ calls[c] = Idle
    /\ transaction_id \in DOMAIN transactions
    /\ calls' = [calls EXCEPT ![c] =
                    [op |-> "approve_transaction", pc |-> "get_all_accounts",
                     id |-> transaction_id, transaction |-> get_transaction(transaction_id),
                     read |-> <<>>, accounts |-> <<>>]]
    /\ UNCHANGED <<accounts, transactions, debts, subscriptions, today, last, refused>>

\* accounts = {...self.db.get_all_accounts()}; transaction.execute(accounts)
\* on these private copies; a false result ends the call
approve_execute(c) ==
    /\ Approving(c) /\ calls[c].pc = "get_all_accounts"
    /\ LET r == execute(calls[c].transaction, get_all_accounts)
       IN  IF r.ret
           THEN /\ calls' = [calls EXCEPT ![c].pc = "save_from",
                                          ![c].transaction = r.txn,
                                          ![c].read = get_all_accounts,
                                          ![c].accounts = r.accounts]
                /\ UNCHANGED <<last, refused>>
           ELSE /\ calls' = [calls EXCEPT ![c].pc = "done", ![c].read = get_all_accounts,
                                          ![c].accounts = r.accounts]
                /\ last' = Called("execute", None, calls[c].id, "False")
                /\ refused' = refused \cup {calls[c].id}
    /\ UNCHANGED <<accounts, transactions, debts, subscriptions, today>>

\* self.db.save_account(accounts[transaction.from_account_id])
approve_save_from(c) ==
    /\ Approving(c) /\ calls[c].pc = "save_from"
    /\ LET from == calls[c].transaction.from_account_id
       IN  accounts' = IF from # None /\ from \in DOMAIN calls[c].accounts
                       THEN save_account(accounts, from, calls[c].accounts[from])
                       ELSE accounts
    /\ calls' = [calls EXCEPT ![c].pc = "save_to"]
    /\ UNCHANGED <<transactions, debts, subscriptions, today, last, refused>>

\* self.db.save_account(accounts[transaction.to_account_id])
approve_save_to(c) ==
    /\ Approving(c) /\ calls[c].pc = "save_to"
    /\ LET to == calls[c].transaction.to_account_id
       IN  accounts' = IF to # None /\ to \in DOMAIN calls[c].accounts
                       THEN save_account(accounts, to, calls[c].accounts[to])
                       ELSE accounts
    /\ calls' = [calls EXCEPT ![c].pc = "save_transaction"]
    /\ UNCHANGED <<transactions, debts, subscriptions, today, last, refused>>

\* self.db.save_transaction(transaction), with the status execute has set
approve_save_transaction(c) ==
    /\ Approving(c) /\ calls[c].pc = "save_transaction"
    /\ transactions' = save_transaction(transactions, calls[c].id, calls[c].transaction)
    /\ calls' = [calls EXCEPT ![c].pc = "done"]
    /\ last' = Called("execute", None, calls[c].id, "True")
    /\ UNCHANGED <<accounts, debts, subscriptions, today, refused>>

\* a call of the store raises (an I/O error of the persistence medium): the
\* handler ends there, and what the earlier calls have committed stays
approve_fails(c) ==
    /\ Approving(c) /\ calls[c].pc \in {"save_from", "save_to", "save_transaction"}
    /\ calls' = [calls EXCEPT ![c].pc = "failed"]
    /\ last' = Called("execute", None, calls[c].id, "raise")
    /\ UNCHANGED <<accounts, transactions, debts, subscriptions, today, refused>>

(***************************************************************************)
(* SpecApprove: one pending transaction of any shape is approved, call by  *)
(* call; a store call of the approval may fail.                            *)
(***************************************************************************)
InitApprove ==
    /\ InitAccounts
    /\ \E type \in TransactionTypes, from \in AccountRefs, to \in AccountRefs,
          amount \in Amounts :
          transactions = (1 :> Transaction_to_dict(
                                 Transaction(StartDate, amount, type, from, to, "pending")))
    /\ debts = <<>>
    /\ subscriptions = <<>>
    /\ today = StartDate
    /\ last = Called("init", None, 0, "None")
    /\ refused = {}
    /\ calls = NoCalls

NextApprove ==
    \/ \E id \in DOMAIN transactions : approve_get_transaction("thread1", id)
    \/ approve_execute("thread1")
    \/ approve_save_from("thread1")
    \/ approve_save_to("thread1")
    \/ approve_save_transaction("thread1")
    \/ approve_fails("thread1")

SpecApprove == InitApprove /\ [][NextApprove]_vars

(***************************************************************************)
(* The handlers that write accounts and transactions: AccountsView         *)
(* (src/ui/accounts.py), TransactionsView (src/ui/transactions.py),        *)
(* TransfersView (src/ui/transfers.py) and PendingView (src/ui/pending.py).*)
(***************************************************************************)
\* Account.reconcile_balance: the adjustment returned and the account
reconcile_balance(a, reported_balance) ==
    [ret |-> reported_balance - a.balance, account |-> [a EXCEPT !.balance = reported_balance]]

AdjustmentTransaction_signed(account_id, adjustment, date) ==
    Transaction(date, adjustment, "adjustment",
                IF adjustment < 0 THEN account_id ELSE None,
                IF adjustment > 0 THEN account_id ELSE None, "completed")

\* the completed adjustment transaction that records a change of balance
AdjustmentTransaction(account_id, adjustment, date) ==
    Transaction(date, Abs(adjustment), "adjustment",
                IF adjustment < 0 THEN account_id ELSE None,
                IF adjustment > 0 THEN account_id ELSE None, "completed")

\* AccountsView.perform_reconciliation
perform_reconciliation(account_id, reported_balance) ==
    /\ account_id \in DOMAIN accounts
    /\ LET r == reconcile_balance(Account_from_dict(accounts[account_id]), reported_balance)
       IN  /\ r.ret # 0 => Cardinality(DOMAIN transactions) < MaxLedgerTxns
           /\ transactions' =
                  IF r.ret # 0
                  THEN save_transaction(transactions, NewId(transactions),
                                        AdjustmentTransaction(account_id, r.ret, today))
                  ELSE transactions
           /\ accounts' = save_account(accounts, account_id, r.account)
    /\ last' = Called("perform_reconciliation", account_id, 0, "None")
    /\ UNCHANGED <<debts, subscriptions, today, refused, calls>>

\* AccountsView.save_account: the form updates the account being edited,
\* recording a changed balance as an adjustment, or creates a new account
AccountsView_save_account(account_id, account_type, balance, credit_limit) ==
    /\ IF account_id \in DOMAIN accounts
       THEN LET account == Account_from_dict(accounts[account_id])
                adjustment == balance - account.balance
            IN  /\ adjustment # 0 => Cardinality(DOMAIN transactions) < MaxLedgerTxns
                /\ transactions' =
                       IF balance # account.balance
                       THEN save_transaction(transactions, NewId(transactions),
                                             AdjustmentTransaction(account_id, adjustment, today))
                       ELSE transactions
                /\ accounts' = save_account(accounts, account_id,
                                            Account(account_type, balance, credit_limit))
       ELSE /\ accounts' = save_account(accounts, account_id,
                                        Account(account_type, balance, credit_limit))
            /\ UNCHANGED transactions
    /\ last' = Called("save_account", account_id, 0, "None")
    /\ UNCHANGED <<debts, subscriptions, today, refused, calls>>

\* TransactionsView.add_transaction: a spending or an income is stored as pending
add_transaction(transaction_type, amount, account_id) ==
    /\ Cardinality(DOMAIN transactions) < MaxLedgerTxns
    /\ IF amount <= 0
       THEN /\ UNCHANGED transactions
            /\ last' = Called("add_transaction", None, 0, "raise")
       ELSE /\ transactions' =
                   save_transaction(transactions, NewId(transactions),
                       IF transaction_type = "spending"
                       THEN Transaction(today, amount, "spending", account_id, None, "pending")
                       ELSE Transaction(today, amount, "income", None, account_id, "pending"))
            /\ last' = Called("add_transaction", None, 0, "None")
    /\ UNCHANGED <<accounts, debts, subscriptions, today, refused, calls>>

\* TransfersView.perform_transfer and AccountsView.perform_transfer: a
\* transfer between two different accounts is stored as pending
perform_transfer(amount, from_account_id, to_account_id) ==
    /\ Cardinality(DOMAIN transactions) < MaxLedgerTxns
    /\ IF amount <= 0 \/ from_account_id = to_account_id
       THEN /\ UNCHANGED transactions
            /\ last' = Called("perform_transfer", None, 0, "raise")
       ELSE /\ transactions' =
                   save_transaction(transactions, NewId(transactions),
                       Transaction(today, amount, "transfer", from_account_id,
                                   to_account_id, "pending"))
            /\ last' = Called("perform_transfer", None, 0, "None")
    /\ UNCHANGED <<accounts, debts, subscriptions, today, refused, calls>>

\* PendingView.save_edit on a transaction of the pending list: the dialog
\* passes the source of a transfer or spending and the destination of a
\* transfer or income
save_edit(transaction_id, amount, from_account_id, to_account_id) ==
    /\ transaction_id \in DOMAIN transactions
    /\ transactions[transaction_id].status = "pending"
    /\ IF amount <= 0
       THEN /\ UNCHANGED transactions
            /\ last' = Called("save_edit", None, 0, "raise")
       ELSE LET transaction == get_transaction(transaction_id)
                type == transaction.transaction_type
            IN  /\ transactions' =
                       save_transaction(transactions, transaction_id,
                           [transaction EXCEPT
                               !.amount = amount,
                               !.from_account_id =
                                   IF type \in {"transfer", "spending"}
                                   THEN from_account_id ELSE None,
                               !.to_account_id =
                                   IF type \in {"transfer", "income"}
                                   THEN to_account_id ELSE None])
                /\ last' = Called("save_edit", None, 0, "None")
    /\ UNCHANGED <<accounts, debts, subscriptions, today, refused, calls>>

(***************************************************************************)
(* SpecLedger: the handlers that write a transaction, on a store with two  *)
(* accounts, one debt and one subscription that is due.                    *)
(***************************************************************************)
LedgerAccounts == {"debit", "savings"}
ReportedBalances == {-1, 0, 1}

RoomInLedger == Cardinality(DOMAIN transactions) < MaxLedgerTxns

InitLedger ==
    /\ accounts = [a \in LedgerAccounts |-> Account_to_dict(Account(a, 1, 0))]
    /\ transactions = <<>>
    /\ \E recv \in BOOLEAN :
          debts = (1 :> Debt_to_dict(Debt(MaxDebtAmount, StartDate, recv, "debit")))
    /\ subscriptions = <<>>
    /\ today = StartDate
    /\ last = Called("init", None, 0, "None")
    /\ refused = {}
    /\ calls = NoCalls

NextLedger ==
    \/ \E balance \in ReportedBalances :
          AccountsView_save_account("debit", "debit", balance, 0)
    \/ \E reported \in ReportedBalances : perform_reconciliation("debit", reported)
    \/ \E type \in {"spending", "income"}, amount \in 0..MaxAmount :
          add_transaction(type, amount, "debit")
    \/ \E amount \in 0..MaxAmount, from \in LedgerAccounts, to \in LedgerAccounts :
          perform_transfer(amount, from, to)
    \/ \E id \in DOMAIN transactions, amount \in 0..MaxAmount :
          save_edit(id, amount, "debit", "savings")
    \/ \E id \in DOMAIN debts, amount \in PaymentAmounts :
          RoomInLedger /\ MakePartialPayment(id, amount)
    \/ \E id \in DOMAIN debts : RoomInLedger /\ MarkAsPaid(id)
    \/ \E amount \in 0..MaxAmount :
          add_subscription(amount, "monthly", StartDate, "debit")
    \/ RoomInLedger /\ generate_pending_subscription_transactions

SpecLedger == InitLedger /\ [][NextLedger]_vars

(***************************************************************************)
(* SpecSavings: a savings account is created, edited and reconciled in the *)
(* accounts view, and spendings and incomes on it are entered and approved.*)
(***************************************************************************)
InitSavings ==
    /\ accounts = <<>>
    /\ transactions = <<>>
    /\ debts = <<>>
    /\ subscriptions = <<>>
    /\ today = StartDate
    /\ last = Called("init", None, 0, "None")
    /\ refused = {}
    /\ calls = NoCalls

NextSavings ==
    \/ \E balance \in ReportedBalances :
          AccountsView_save_account("savings", "savings", balance, 0)
    \/ \E reported \in ReportedBalances : perform_reconciliation("savings", reported)
    \/ \E type \in {"spending", "income"}, amount \in 0..MaxAmount :
          add_transaction(type, amount, "savings")
    \/ \E id \in DOMAIN transactions : approve_transaction(id)

SpecSavings == InitSavings /\ [][NextSavings]_vars

(***************************************************************************)
(* Database.get_liquidity (src/db.py) and SpecLiquidity: the liquidity of  *)
(* a store of up to two accounts of any type, currency, sign of balance    *)
(* and savings flag.                                                       *)
(***************************************************************************)
get_available_balance(a) ==
    IF a.account_type = "credit" THEN a.balance + a.credit_limit
    ELSE IF a.account_type = "debit" /\ a.balance < 0 THEN 0
    ELSE a.balance

get_liquidity(accts) ==
    IF DOMAIN accts = {} THEN 0
    ELSE SumOf([a \in DOMAIN accts |->
                  IF accts[a].account_type = "credit" /\ accts[a].balance < 0 THEN 0
                  ELSE IF accts[a].is_savings THEN 0
                  ELSE LET account_value_in_chf ==
                               InChf(get_available_balance(accts[a]), accts[a].currency)
                       IN  IF account_value_in_chf > 0 THEN account_value_in_chf ELSE 0])

\* a call of Database.get_liquidity by caller c
GetLiquidity(c) ==
    /\ calls[c] = Idle
    /\ calls' = [calls EXCEPT ![c] = [op |-> "get_liquidity",
                                      ret |-> get_liquidity(get_all_accounts)]]
    /\ last' = Called("get_liquidity", None, 0, "number")
    /\ UNCHANGED <<accounts, transactions, debts, subscriptions, today, refused>>

Currencies == {"CHF", "EUR"}

\* the accounts the form of the accounts view can store
FormAccounts ==
    {[Account(type, balance, IF type = "credit" THEN CreditLimit ELSE 0)
         EXCEPT !.currency = currency, !.is_savings = is_savings] :
       type \in AccountIds, balance \in ReportedBalances,
       currency \in Currencies, is_savings \in BOOLEAN}

StoreAccountIds == {"debit", "savings"}

InitLiquidity ==
    /\ \E ids \in SUBSET StoreAccountIds : \E accts \in [ids -> FormAccounts] :
          accounts = [a \in ids |-> Account_to_dict(accts[a])]
    /\ transactions = <<>>
    /\ debts = <<>>
    /\ subscriptions = <<>>
    /\ today = StartDate
    /\ last = Called("init", None, 0, "None")
    /\ refused = {}
    /\ calls = NoCalls

NextLiquidity == GetLiquidity("thread1")

SpecLiquidity == InitLiquidity /\ [][NextLiquidity]_vars

(***************************************************************************)
(* SpecWorth: get_net_worth alone on a store of two accounts, two debts    *)
(* and two subscriptions.                                                  *)
(***************************************************************************)
DebtStatuses == {"pending", "partial", "paid", "overdue"}

\* a debt of the status, with the payments that led to it
DebtAt(status, is_receivable) ==
    [Debt(MaxDebtAmount, StartDate, is_receivable, None) EXCEPT
        !.status = status,
        !.payment_history =
            IF status = "partial" THEN <<PaymentRecord(StartDate, 1, "")>>
            ELSE IF status = "paid" THEN <<PaymentRecord(StartDate, MaxDebtAmount, "")>>
            ELSE <<>>]

\* yesterday, today, and the last day within and the first day beyond 30 days
NextPaymentDates ==
    {Date(2024, 1, 9), StartDate, AddDays(StartDate, 30), AddDays(StartDate, 31)}

InitWorth ==
    /\ \E balance \in ReportedBalances, currency \in Currencies :
          accounts = [a \in StoreAccountIds |->
                        Account_to_dict(
                            IF a = "debit"
                            THEN [Account("debit", balance, 0) EXCEPT !.currency = currency]
                            ELSE Account("savings", 1, 0))]
    /\ transactions = <<>>
    /\ \E status \in DebtStatuses, first \in BOOLEAN, second \in BOOLEAN :
          debts = (1 :> Debt_to_dict(DebtAt(status, first)))
                  @@ (2 :> Debt_to_dict(Debt(1, StartDate, second, None)))
    /\ \E status \in SubscriptionStatuses, due \in NextPaymentDates :
          subscriptions =
              (1 :> Subscription_to_dict(
                        [Subscription(MaxAmount, "monthly", due, None) EXCEPT !.status = status]))
              @@ (2 :> Subscription_to_dict(
                           Subscription(1, "yearly", Date(2024, 1, 11), None)))
    /\ today = StartDate
    /\ last = Called("init", None, 0, "None")
    /\ refused = {}
    /\ calls = NoCalls

NextWorth ==
    \/ get_net_worth_accounts("thread1")
    \/ get_net_worth_debts("thread1")
    \/ get_net_worth_subscriptions("thread1")

SpecWorth == InitWorth /\ [][NextWorth]_vars

(***************************************************************************)
(* Database.get_savings_stats (src/db.py) and SpecStats: the statistics of *)
(* December 2023 and January 2024 on a store of two accounts and two       *)
(* transactions dated around the ends of these months.                     *)
(***************************************************************************)
\* SELECT SUM(amount) FROM transactions WHERE <field> = account_id
\* AND date >= start_date AND date < end_date AND status = 'completed'
SumOfCompleted(field, account_id, start_date, end_date) ==
    SumOf([t \in {i \in DOMAIN transactions :
                     /\ transactions[i][field] = account_id
                     /\ TextLeq(start_date, transactions[i].date)
                     /\ TextLess(transactions[i].date, end_date)
                     /\ transactions[i].status = "completed"}
              |-> transactions[t].amount])

\* get_savings_stats with a window that takes in the first day of the next month
get_savings_stats_closed_window(month, year) ==
    LET savings_account_ids == {a \in DOMAIN accounts : accounts[a].is_savings = 1}
        start_date == isoformat(Date(year, month, 1))
        end_date == IF month = 12 THEN isoformat(Date(year + 1, 1, 1))
                    ELSE isoformat(Date(year, month + 1, 1))
    IN  IF savings_account_ids = {}
        THEN [total_balance |-> 0, month_contribution |-> 0]
        ELSE [total_balance |->
                  SumOf([a \in savings_account_ids |-> Account_from_dict(accounts[a]).balance]),
              month_contribution |->
                  SumOf([a \in savings_account_ids |->
                           SumOf([t \in {i \in DOMAIN transactions :
                                            /\ transactions[i].to_account_id = a
                                            /\ TextLeq(start_date, transactions[i].date)
                                            /\ TextLeq(transactions[i].date, end_date)
                                            /\ transactions[i].status = "completed"}
                                    |-> transactions[t].amount])
                           - SumOf([t \in {i \in DOMAIN transactions :
                                              /\ transactions[i].from_account_id = a
                                              /\ TextLeq(start_date, transactions[i].date)
                                              /\ TextLeq(transactions[i].date, end_date)
                                              /\ transactions[i].status = "completed"}
                                      |-> transactions[t].amount])])]

get_savings_stats(month, year) ==
    LET savings_account_ids == {a \in DOMAIN accounts : accounts[a].is_savings = 1}
        start_date == isoformat(Date(year, month, 1))
        end_date == IF month = 12 THEN isoformat(Date(year + 1, 1, 1))
                    ELSE isoformat(Date(year, month + 1, 1))
    IN  IF savings_account_ids = {}
        THEN [total_balance |-> 0, month_contribution |-> 0]
        ELSE [total_balance |->
                  SumOf([a \in savings_account_ids |-> Account_from_dict(accounts[a]).balance]),
              month_contribution |->
                  SumOf([a \in savings_account_ids |->
                           SumOfCompleted("to_account_id", a, start_date, end_date)
                           - SumOfCompleted("from_account_id", a, start_date, end_date)])]

\* a call of Database.get_savings_stats by caller c
GetSavingsStats(c, month, year) ==
    /\ calls[c] = Idle
    /\ calls' = [calls EXCEPT ![c] = [op |-> "get_savings_stats", month |-> month,
                                      year |-> year, ret |-> get_savings_stats(month, year)]]
    /\ last' = Called("get_savings_stats", None, 0, "dict")
    /\ UNCHANGED <<accounts, transactions, debts, subscriptions, today, refused>>

\* the last and the first days of the months around the two windows
StatsDates ==
    {Date(2023, 11, 30), Date(2023, 12, 1), Date(2023, 12, 31),
     Date(2024, 1, 1), Date(2024, 1, 31), Date(2024, 2, 1)}

\* the accounts a transaction of the type moves money from and to
Direction(type, from, to) ==
    [transaction_type |-> type,
     from_account_id |-> IF type = "income" THEN None ELSE from,
     to_account_id |-> IF type = "spending" THEN None ELSE to]

Directions ==
    {Direction("income", None, "savings"), Direction("spending", "savings", None),
     Direction("transfer", "debit", "savings"), Direction("transfer", "savings", "debit")}

TransactionOf(date, amount, direction, status) ==
    Transaction(date, amount, direction.transaction_type, direction.from_account_id,
                direction.to_account_id, status)

InitStats ==
    /\ \E first \in BOOLEAN, second \in BOOLEAN :
          accounts = ("debit" :> Account_to_dict(
                                    [Account("debit", 1, 0) EXCEPT !.is_savings = first]))
                     @@ ("savings" :> Account_to_dict(
                                    [Account("savings", MaxBalance, 0) EXCEPT !.is_savings = second]))
    /\ \E date1 \in StatsDates, amount1 \in Amounts, direction1 \in Directions,
          status \in {"completed", "pending"},
          date2 \in {Date(2023, 12, 31), Date(2024, 1, 1)}, amount2 \in Amounts,
          direction2 \in Directions :
          transactions =
              (1 :> Transaction_to_dict(TransactionOf(date1, amount1, direction1, status)))
              @@ (2 :> Transaction_to_dict(
                           TransactionOf(date2, amount2, direction2, "completed")))
    /\ debts = <<>>
    /\ subscriptions = <<>>
    /\ today = StartDate
    /\ last = Called("init", None, 0, "None")
    /\ refused = {}
    /\ calls = NoCalls

NextStats ==
    \E month \in {12, 1} : GetSavingsStats("thread1", month, IF month = 12 THEN 2023 ELSE 2024)

SpecStats == InitStats /\ [][NextStats]_vars

(***************************************************************************)
(* DashboardDataProvider.get_liquidity_trend and get_net_worth_trend       *)
(* (src/dashboard_data.py) and SpecTrend: the two trends over 1, 2, 3 and  *)
(* 5 days on a store of five or six transactions.  A point is its date     *)
(* (ISO text) and its value; the "day" label, a second rendering of the    *)
(* same date, is left out.                                                 *)
(***************************************************************************)
FewTransactions == 5   \* below this many transactions the trend is two points
Variation == 1000      \* the step of the variation added to a point (10, in hundredths)
RealDays == 3          \* days back for which the net worth trend gives a value

\* date - timedelta(days=n)
RECURSIVE MinusDays(_, _)
MinusDays(dt, n) ==
    IF n < dt.day THEN Date(dt.year, dt.month, dt.day - n)
    ELSE LET y == IF dt.month = 1 THEN dt.year - 1 ELSE dt.year
             m == IF dt.month = 1 THEN 12 ELSE dt.month - 1
         IN  MinusDays(Date(y, m, DaysInMonth(y, m)), n - dt.day)

\* get_all_transactions that selects the rows of every status
get_all_transactions_any_status(status, start_date, end_date) ==
    {id \in DOMAIN transactions :
        /\ TextLeq(isoformat(start_date), transactions[id].date)
        /\ TextLeq(transactions[id].date, isoformat(end_date))}

\* the ids of the rows Database.get_all_transactions(status=, start_date=,
\* end_date=) returns (the trends use their number and their sums by date,
\* not their order)
get_all_transactions(status, start_date, end_date) ==
    {id \in DOMAIN transactions :
        /\ transactions[id].status = status
        /\ TextLeq(isoformat(start_date), transactions[id].date)
        /\ TextLeq(transactions[id].date, isoformat(end_date))}

Point(date, value) == [date |-> isoformat(date), value |-> value]

\* list.sort(key=lambda x: x["date"]): a stable sort by the date text
RECURSIVE SortByDate(_)
SortByDate(points) ==
    IF Len(points) <= 1 THEN points
    ELSE LET sorted == SortByDate(SubSeq(points, 1, Len(points) - 1))
             x == points[Len(points)]
             before == SelectSeq(sorted, LAMBDA p : TextLeq(p.date, x.date))
             after == SelectSeq(sorted, LAMBDA p : ~TextLeq(p.date, x.date))
         IN  before \o <<x>> \o after

\* daily_transactions[date]: + amount for an income, - amount for a spending
daily_transactions(txs, date) ==
    SumOf([id \in {i \in txs : transactions[i].date = isoformat(date)} |->
             LET tx == get_transaction(id)
             IN  IF tx.transaction_type = "income" THEN tx.amount
                 ELSE IF tx.transaction_type = "spending" THEN 0 - tx.amount
                 ELSE 0])

\* daily_debt_changes[date]: the payments of the debts recorded on the date,
\* those dated before start_date left out
daily_debt_changes(start_date, date) ==
    SumOf([id \in DOMAIN debts |->
             LET debt == get_all_debts[id]
                 on_date == SelectSeq(debt.payment_history,
                                LAMBDA payment :
                                    /\ TextLeq(isoformat(start_date), payment.date)
                                    /\ payment.date = isoformat(date))
             IN  SumAmounts(on_date) * (IF debt.is_receivable THEN -1 ELSE 1)])

\* the two points returned when the transactions are few
TwoPoints(current, days) ==
    SortByDate(<<Point(today, current), Point(MinusDays(today, days - 1), 0)>>)

get_liquidity_trend(days) ==
    LET current_liquidity == get_liquidity(get_all_accounts)
        start_date == MinusDays(today, days)
        txs == get_all_transactions("completed", start_date, today)
        historical_liquidity(i) ==
            current_liquidity
            - SumOf([j \in 1..i |-> daily_transactions(txs, MinusDays(today, j))])
        random_variation(i) == ((i % 5) - 2) * Variation
        value(i) == IF historical_liquidity(i) + random_variation(i) > 0
                    THEN historical_liquidity(i) + random_variation(i) ELSE 0
    IN  IF Cardinality(txs) < FewTransactions THEN TwoPoints(current_liquidity, days)
        ELSE SortByDate(<<Point(today, current_liquidity)>>
                        \o [i \in 1..(days - 1) |-> Point(MinusDays(today, i), value(i))])

get_net_worth_trend(days) ==
    LET current_net_worth == NetWorthNow
        start_date == MinusDays(today, days)
        txs == get_all_transactions("completed", start_date, today)
        historical_net_worth(i) ==
            current_net_worth.net_worth
            - SumOf([j \in 1..i |-> daily_transactions(txs, MinusDays(today, j))
                                    + daily_debt_changes(start_date, MinusDays(today, j))])
    IN  IF Cardinality(txs) < FewTransactions THEN TwoPoints(current_net_worth.net_worth, days)
        ELSE SortByDate(<<Point(today, current_net_worth.net_worth)>>
                        \o [i \in 1..(days - 1) |->
                               Point(MinusDays(today, i),
                                     IF i <= RealDays THEN historical_net_worth(i) ELSE 0)])

\* a call of get_liquidity_trend(days) by caller c
GetLiquidityTrend(c, days) ==
    /\ calls[c] = Idle
    /\ calls' = [calls EXCEPT ![c] = [op |-> "get_liquidity_trend", days |-> days,
                                      ret |-> get_liquidity_trend(days)]]
    /\ last' = Called("get_liquidity_trend", None, 0, "list")
    /\ UNCHANGED <<accounts, transactions, debts, subscriptions, today, refused>>

\* a call of get_net_worth_trend(days) by caller c
GetNetWorthTrend(c, days) ==
    /\ calls[c] = Idle
    /\ calls' = [calls EXCEPT ![c] = [op |-> "get_net_worth_trend", days |-> days,
                                      ret |-> get_net_worth_trend(days)]]
    /\ last' = Called("get_net_worth_trend", None, 0, "list")
    /\ UNCHANGED <<accounts, transactions, debts, subscriptions, today, refused>>

TrendDays == {1, 2, 3, 5}

\* completed transactions of the last three days
RecentTransactions ==
    <<Transaction(StartDate, 1, "income", None, "debit", "completed"),
      Transaction(MinusDays(StartDate, 1), 1, "spending", "debit", None, "completed"),
      Transaction(MinusDays(StartDate, 1), 1, "transfer", "debit", "savings", "completed"),
      Transaction(MinusDays(StartDate, 2), MaxAmount, "income", None, "debit", "completed")>>

\* three or four recent transactions, one transaction dated from tomorrow
\* back to six days ago and one dated today or two days ago
InitTrend ==
    /\ \E balance \in {0, MaxBalance} :
          accounts = ("debit" :> Account_to_dict(Account("debit", balance, 0)))
                     @@ ("savings" :> Account_to_dict(
                            [Account("savings", 1, 0) EXCEPT !.is_savings = TRUE]))
    /\ \E recent \in {3, 4}, back \in 0..7, amount1 \in Amounts,
          type1 \in {"income", "spending", "transfer"}, status \in {"completed", "pending"},
          date2 \in {StartDate, MinusDays(StartDate, 2)}, amount2 \in Amounts,
          type2 \in {"income", "spending"} :
          transactions =
              [id \in 1..recent |-> Transaction_to_dict(RecentTransactions[id])]
              @@ ((recent + 1) :> Transaction_to_dict(
                      Transaction(MinusDays(AddDays(StartDate, 1), back), amount1, type1,
                                  IF type1 = "income" THEN None ELSE "debit",
                                  IF type1 = "spending" THEN None
                                  ELSE IF type1 = "income" THEN "debit" ELSE "savings",
                                  status)))
              @@ ((recent + 2) :> Transaction_to_dict(
                      Transaction(date2, amount2, type2,
                                  IF type2 = "income" THEN None ELSE "debit",
                                  IF type2 = "spending" THEN None ELSE "debit",
                                  "completed")))
    /\ debts = (1 :> Debt_to_dict(
                        [Debt(MaxDebtAmount, AddDays(StartDate, 30), FALSE, "debit")
                            EXCEPT !.status = "partial",
                                   !.payment_history =
                                       <<PaymentRecord(MinusDays(StartDate, 1), 1,
                                                       "Partial payment")>>]))
    /\ subscriptions = <<>>
    /\ today = StartDate
    /\ last = Called("init", None, 0, "None")
    /\ refused = {}
    /\ calls = NoCalls

NextTrend ==
    \E days \in TrendDays :
        \/ GetLiquidityTrend("thread1", days)
        \/ GetNetWorthTrend("thread2", days)

SpecTrend == InitTrend /\ [][NextTrend]_vars

(***************************************************************************)
(* The store's calls by id (src/db.py): get_*, save_* and delete_* of the  *)
(* four kinds of entity.  A read gives the entity inside a one-element     *)
(* sequence, or the empty sequence for None.                               *)
(***************************************************************************)
\* cursor.fetchone(): the row with the id, if there is one
fetchone(table, id) == IF id \in DOMAIN table THEN <<table[id]>> ELSE <<>>

Database_get_account(account_id) ==
    LET row == fetchone(accounts, account_id)
    IN  IF row # <<>> THEN <<Account_from_dict(row[1])>> ELSE <<>>

Database_get_transaction(transaction_id) ==
    LET row == fetchone(transactions, transaction_id)
    IN  IF row # <<>> THEN <<Transaction_from_dict(row[1])>> ELSE <<>>

Database_get_debt(debt_id) ==
    LET row == fetchone(debts, debt_id)
    IN  IF row # <<>> THEN <<Debt_from_dict(row[1])>> ELSE <<>>

Database_get_subscription(subscription_id) ==
    LET row == fetchone(subscriptions, subscription_id)
    IN  IF row # <<>> THEN <<Subscription_from_dict(row[1])>> ELSE <<>>

\* what a read returned: the class of the entity, or None
Returned(entity, class) == IF entity = <<>> THEN "None" ELSE class

GetAccount(account_id) ==
    /\ last' = Called("get_account", account_id, 0,
                      Returned(Database_get_account(account_id), "Account"))
    /\ UNCHANGED <<accounts, transactions, debts, subscriptions, today, refused, calls>>

GetTransaction(transaction_id) ==
    /\ last' = Called("get_transaction", None, transaction_id,
                      Returned(Database_get_transaction(transaction_id), "Transaction"))
    /\ UNCHANGED <<accounts, transactions, debts, subscriptions, today, refused, calls>>

GetDebt(debt_id) ==
    /\ last' = Called("get_debt", None, debt_id,
                      Returned(Database_get_debt(debt_id), "Debt"))
    /\ UNCHANGED <<accounts, transactions, debts, subscriptions, today, refused, calls>>

GetSubscription(subscription_id) ==
    /\ last' = Called("get_subscription", None, subscription_id,
                      Returned(Database_get_subscription(subscription_id), "Subscription"))
    /\ UNCHANGED <<accounts, transactions, debts, subscriptions, today, refused, calls>>

\* Database.save_*: INSERT OR REPLACE of the entity's to_dict; the id is returned
SaveAccount(account_id, account) ==
    /\ accounts' = save_account(accounts, account_id, account)
    /\ last' = Called("save_account", account_id, 0, "id")
    /\ UNCHANGED <<transactions, debts, subscriptions, today, refused, calls>>

SaveTransaction(transaction_id, transaction) ==
    /\ transactions' = save_transaction(transactions, transaction_id, transaction)
    /\ last' = Called("save_transaction", None, transaction_id, "id")
    /\ UNCHANGED <<accounts, debts, subscriptions, today, refused, calls>>

SaveDebt(debt_id, debt) ==
    /\ debts' = save_debt(debts, debt_id, debt)
    /\ last' = Called("save_debt", None, debt_id, "id")
    /\ UNCHANGED <<accounts, transactions, subscriptions, today, refused, calls>>

SaveSubscription(subscription_id, subscription) ==
    /\ subscriptions' = save_subscription(subscriptions, subscription_id, subscription)
    /\ last' = Called("save_subscription", None, subscription_id, "id")
    /\ UNCHANGED <<accounts, transactions, debts, today, refused, calls>>

\* Database.delete_*: DELETE ... WHERE id = ?; true when a row was deleted
DeleteAccount(account_id) ==
    /\ accounts' = delete_row(accounts, account_id)
    /\ last' = Called("delete_account", account_id, 0, Bool(account_id \in DOMAIN accounts))
    /\ UNCHANGED <<transactions, debts, subscriptions, today, refused, calls>>

\* a delete of a transaction that takes a completed transaction's amount back
DeleteTransaction_reversing(transaction_id) ==
    /\ transactions' = delete_row(transactions, transaction_id)
    /\ accounts' =
          IF transaction_id \in DOMAIN transactions
             /\ transactions[transaction_id].status = "completed"
          THEN LET t == transactions[transaction_id]
               IN  [a \in DOMAIN accounts |->
                      [accounts[a] EXCEPT !.balance =
                          @ + (IF a = t.from_account_id THEN t.amount ELSE 0)
                            - (IF a = t.to_account_id THEN t.amount ELSE 0)]]
          ELSE accounts
    /\ last' = Called("delete_transaction", None, transaction_id,
                      Bool(transaction_id \in DOMAIN transactions))
    /\ UNCHANGED <<debts, subscriptions, today, refused, calls>>

DeleteTransaction(transaction_id) ==
    /\ transactions' = delete_row(transactions, transaction_id)
    /\ last' = Called("delete_transaction", None, transaction_id,
                      Bool(transaction_id \in DOMAIN transactions))
    /\ UNCHANGED <<accounts, debts, subscriptions, today, refused, calls>>

DeleteDebt(debt_id) ==
    /\ debts' = delete_row(debts, debt_id)
    /\ last' = Called("delete_debt", None, debt_id, Bool(debt_id \in DOMAIN debts))
    /\ UNCHANGED <<accounts, transactions, subscriptions, today, refused, calls>>

DeleteSubscription(subscription_id) ==
    /\ subscriptions' = delete_row(subscriptions, subscription_id)
    /\ last' = Called("delete_subscription", None, subscription_id,
                      Bool(subscription_id \in DOMAIN subscriptions))
    /\ UNCHANGED <<accounts, transactions, debts, today, refused, calls>>

(***************************************************************************)
(* SpecStore: entities of the four kinds are saved, read and deleted by id.*)
(***************************************************************************)
StoreIds == {1, 2}

\* the entities that are saved
SavedAccounts ==
    {Account("debit", -1, 0),
     [Account("credit", MaxBalance, CreditLimit) EXCEPT !.is_savings = TRUE, !.currency = "EUR"]}

SavedTransactions ==
    {Transaction(Date(2023, 12, 31), MaxAmount, "income", None, "debit", "completed")}

SavedDebts ==
    {Debt(MaxDebtAmount, StartDate, TRUE, None),
     [Debt(MaxDebtAmount, Date(2024, 2, 29), FALSE, "debit") EXCEPT
          !.status = "partial",
          !.payment_history = <<PaymentRecord(Date(2024, 1, 9), 1, ""),
                                 PaymentRecord(StartDate, 1, "Final payment")>>]}

SavedSubscriptions ==
    {[Subscription(MaxAmount, "yearly", Date(2024, 12, 1), "debit") EXCEPT !.status = "paused"]}

InitStore ==
    /\ accounts = <<>>
    /\ transactions = <<>>
    /\ debts = <<>>
    /\ subscriptions = <<>>
    /\ today = StartDate
    /\ last = Called("init", None, 0, "None")
    /\ refused = {}
    /\ calls = NoCalls

NextStore ==
    \/ \E id \in StoreAccountIds, a \in SavedAccounts : SaveAccount(id, a)
    \/ \E id \in StoreIds, t \in SavedTransactions : SaveTransaction(id, t)
    \/ \E id \in StoreIds, d \in SavedDebts : SaveDebt(id, d)
    \/ \E id \in StoreIds, sub \in SavedSubscriptions : SaveSubscription(id, sub)
    \/ \E id \in StoreAccountIds : GetAccount(id)
    \/ \E id \in StoreIds : GetTransaction(id)
    \/ \E id \in StoreIds : GetDebt(id)
    \/ \E id \in StoreIds : GetSubscription(id)
    \/ \E id \in StoreAccountIds : DeleteAccount(id)
    \/ \E id \in StoreIds : DeleteTransaction(id)
    \/ \E id \in StoreIds : DeleteDebt(id)
    \/ \E id \in StoreIds : DeleteSubscription(id)

SpecStore == InitStore /\ [][NextStore]_vars

(***************************************************************************)
(* SpecDelete: Spec with the deletion of the transaction.                  *)
(***************************************************************************)
NextDelete ==
    \/ Next
    \/ \E id \in StoreIds : DeleteTransaction(id)

SpecDelete == Init /\ [][NextDelete]_vars

(***************************************************************************)
(* SpecApprovals and SpecPending: two callers work on two pending          *)
(* transactions of the debit account.  Each caller approves one of them,   *)
(* call by call (src/ui/pending.py); in SpecPending a caller may instead   *)
(* edit a transaction in the dialog of the pending view, and the row of    *)
(* the debit account may be stored by the accounts view meanwhile.         *)
(***************************************************************************)
\* edit_transaction: the dialog is opened on a transaction of the pending list
edit_transaction(c, transaction_id) ==
    /\ calls[c] = Idle
    /\ transaction_id \in DOMAIN transactions
    /\ transactions[transaction_id].status = "pending"
    /\ calls' = [calls EXCEPT ![c] = [op |-> "edit_transaction", id |-> transaction_id]]
    /\ last' = Called("edit_transaction", None, transaction_id, "None")
    /\ UNCHANGED <<accounts, transactions, debts, subscriptions, today, refused>>

\* save_edit called by the Save button of the dialog: a non-positive amount
\* is refused and the dialog stays open; else the transaction is read from
\* the store again, given the fields of the form and stored
PendingView_save_edit(c, amount, date, from_account_id, to_account_id) ==
    /\ calls[c].op = "edit_transaction"
    /\ calls[c].id \in DOMAIN transactions
    /\ IF amount <= 0
       THEN /\ last' = Called("save_edit", None, calls[c].id, "raise")
            /\ UNCHANGED <<transactions, calls>>
       ELSE LET transaction == get_transaction(calls[c].id)
                type == transaction.transaction_type
            IN  /\ transactions' =
                       save_transaction(transactions, calls[c].id,
                           [transaction EXCEPT
                               !.amount = amount,
                               !.date = date,
                               !.from_account_id =
                                   IF type \in {"transfer", "spending"}
                                   THEN from_account_id ELSE None,
                               !.to_account_id =
                                   IF type \in {"transfer", "income"}
                                   THEN to_account_id ELSE None])
                /\ calls' = [calls EXCEPT ![c] = Idle]
                /\ last' = Called("save_edit", None, calls[c].id, "None")
    /\ UNCHANGED <<accounts, debts, subscriptions, today, refused>>

\* the balance of the debit account at the start: enough for two spendings
StartBalance == MaxAmount + MaxAmount

InitPending ==
    /\ accounts = ("debit" :> Account_to_dict(Account("debit", StartBalance, 0)))
                  @@ ("savings" :> Account_to_dict(Account("savings", 0, 0)))
    /\ \E type \in {"spending", "income", "transfer"}, a \in Amounts, b \in Amounts :
          transactions =
              (1 :> Transaction_to_dict(
                        Transaction(StartDate, a, type,
                                    IF type = "income" THEN None ELSE "debit",
                                    IF type = "spending" THEN None
                                    ELSE IF type = "income" THEN "debit" ELSE "savings",
                                    "pending")))
              @@ (2 :> Transaction_to_dict(
                          Transaction(StartDate, b, "spending", "debit", None, "pending")))
    /\ debts = <<>>
    /\ subscriptions = <<>>
    /\ today = StartDate
    /\ last = Called("init", None, 0, "None")
    /\ refused = {}
    /\ calls = NoCalls

NextApprovals ==
    \E c \in Callers :
        \/ \E id \in DOMAIN transactions : approve_get_transaction(c, id)
        \/ approve_execute(c)
        \/ approve_save_from(c)
        \/ approve_save_to(c)
        \/ approve_save_transaction(c)

SpecApprovals == InitPending /\ [][NextApprovals]_vars

NextPending ==
    \/ NextApprovals
    \/ \E c \in Callers, id \in DOMAIN transactions : edit_transaction(c, id)
    \/ \E c \in Callers, amount \in 0..MaxAmount, date \in {StartDate, AddDays(StartDate, 1)} :
          PendingView_save_edit(c, amount, date, "debit", "savings")
    \/ SaveAccount("debit", Account("debit", 0, 0))

SpecPending == InitPending /\ [][NextPending]_vars

(***************************************************************************)
(* Properties of Transaction.execute (checked under Spec).                 *)
(***************************************************************************)
Executed(id) == last.op = "execute" /\ last.id = id

\* C1: execute is idempotent.  In every state that a call of execute has
\* left, a second call on the same transaction and account map changes
\* neither the transaction nor any account, and returns false when the
\* first call returned true.
C1_ExecuteIdempotent ==
    \A id \in DOMAIN transactions :
        Executed(id) =>
            LET second == execute(get_transaction(id), get_all_accounts)
            IN  /\ second.txn = get_transaction(id)
                /\ second.accounts = get_all_accounts
                /\ last.ret = "True" => ~second.ret

\* a transfer was executed with success and its effect is on the accounts
C1_Witness ==
    /\ Executed(1) /\ last.ret = "True"
    /\ transactions[1].transaction_type = "transfer"
    /\ transactions[1].from_account_id = "debit"
    /\ transactions[1].to_account_id = "savings"
    /\ transactions[1].status = "completed"
    /\ accounts["savings"].balance = 1 + transactions[1].amount

\* C2: transfer atomicity.  Whenever execute on a transfer returns false,
\* every account balance and the transaction (so its pending status) are as
\* before the call; and the destination is credited only in a call that
\* returns true after a successful withdraw from the source.
C2_TransferAtomic ==
    \A id \in DOMAIN transactions :
        LET t == get_transaction(id)
            accts == get_all_accounts
            r == execute(t, accts)
        IN  t.transaction_type = "transfer" =>
                /\ ~r.ret => (r.accounts = accts /\ r.txn = t)
                /\ \A to \in DOMAIN accts :
                       (to = t.to_account_id /\ r.accounts[to] # accts[to]) =>
                               /\ r.ret
                               /\ t.from_account_id \in DOMAIN accts
                               /\ withdraw(accts[t.from_account_id], t.amount).ret
                               /\ r.accounts[t.from_account_id].balance
                                     = accts[t.from_account_id].balance - t.amount

\* a transfer out of the savings account was refused for lack of funds
C2_Witness ==
    /\ Executed(1) /\ last.ret = "False"
    /\ transactions[1].transaction_type = "transfer"
    /\ transactions[1].status = "pending"
    /\ transactions[1].from_account_id = "savings"
    /\ transactions[1].to_account_id = "debit"
    /\ transactions[1].amount > accounts["savings"].balance

\* C10: the status machine under execute.  A call of execute changes the
\* status only from pending to completed and does so exactly when it returns
\* true; on a completed or canceled transaction it returns false and changes
\* nothing; and the stored status changes in no other step.
C10_StatusMachine ==
    /\ [](\A id \in DOMAIN transactions :
            LET t == get_transaction(id)
                accts == get_all_accounts
                r == execute(t, accts)
            IN  /\ r.txn.status # t.status =>
                       (t.status = "pending" /\ r.txn.status = "completed")
                /\ r.ret <=> r.txn.status # t.status
                /\ t.status \in {"completed", "canceled"} =>
                       (~r.ret /\ r.txn = t /\ r.accounts = accts))
    /\ [][\A id \in DOMAIN transactions :
            /\ transactions'[id].status # transactions[id].status =>
                   /\ approve_transaction(id)
                   /\ last'.ret = "True"
                   /\ transactions[id].status = "pending"
                   /\ transactions'[id].status = "completed"
            /\ (approve_transaction(id) /\ last'.ret = "True") =>
                   transactions'[id].status # transactions[id].status
            /\ transactions[id].status = "completed" =>
                   transactions'[id].status = "completed"]_vars

\* a completed spending was passed to execute again and refused
C10_Witness ==
    /\ Executed(1) /\ last.ret = "False"
    /\ transactions[1].status = "completed"
    /\ transactions[1].transaction_type = "spending"
    /\ transactions[1].from_account_id = "credit"

\* the account references a transaction's type requires, and whether one of
\* them is missing or names an account that is not in the account map
RequiredRefs(t) ==
    IF t.transaction_type = "transfer" THEN {t.from_account_id, t.to_account_id}
    ELSE IF t.transaction_type = "spending" THEN {t.from_account_id}
    ELSE IF t.transaction_type = "income" THEN {t.to_account_id}
    ELSE {}

NamedRefs(t) == {t.from_account_id, t.to_account_id} \ {None}

\* C11 as stated: execute on a pending transaction whose required account
\* reference is missing, or refers to an account that is not in the account
\* map, returns false, keeps the transaction pending and changes no balance;
\* for an adjustment the required reference is either of the two.
C11_AbsentReferenceFails ==
    \A id \in DOMAIN transactions :
        LET t == get_transaction(id)
            accts == get_all_accounts
            r == execute(t, accts)
        IN  (/\ t.status = "pending"
             /\ \/ \E ref \in RequiredRefs(t) : ref \notin DOMAIN accts
                \/ /\ t.transaction_type = "adjustment"
                   /\ \/ NamedRefs(t) = {}
                      \/ \E ref \in NamedRefs(t) : ref \notin DOMAIN accts)
            => (~r.ret /\ r.txn = t /\ r.accounts = accts)

\* C11, amended: execute on a pending transfer, spending or income whose
\* required account reference is missing or names an account that is not
\* in the account map, and on a pending adjustment that names no account,
\* returns false, keeps the transaction pending and changes no balance; the
\* approval that made the call leaves the store as it was.
C11_MissingReferenceFails ==
    /\ [](\A id \in DOMAIN transactions :
            LET t == get_transaction(id)
                accts == get_all_accounts
                r == execute(t, accts)
            IN  (/\ t.status = "pending"
                 /\ \/ \E ref \in RequiredRefs(t) : ref \notin DOMAIN accts
                    \/ t.transaction_type = "adjustment" /\ NamedRefs(t) = {})
                => (~r.ret /\ r.txn = t /\ r.accounts = accts))
    /\ [][\A id \in DOMAIN transactions :
            (/\ approve_transaction(id)
             /\ transactions[id].status = "pending"
             /\ \/ \E ref \in RequiredRefs(get_transaction(id)) : ref \notin DOMAIN accounts
                \/ /\ transactions[id].transaction_type = "adjustment"
                   /\ NamedRefs(get_transaction(id)) = {})
            => (last'.ret = "False" /\ UNCHANGED <<accounts, transactions>>)]_vars

\* a pending income into an account that is no longer stored was refused
C11_Witness ==
    /\ Executed(1) /\ last.ret = "False"
    /\ transactions[1].transaction_type = "income"
    /\ transactions[1].to_account_id = GoneId
    /\ transactions[1].status = "pending"
    /\ GoneId \notin DOMAIN accounts

\* the withdraw rule of an account's type passes for an amount
FundsSuffice(acct, amount) ==
    IF acct.account_type = "credit" THEN acct.balance - amount >= -acct.credit_limit
    ELSE IF acct.account_type = "savings" THEN acct.balance >= amount
    ELSE TRUE

\* C16: a failed execute is retryable.  A pending spending or transfer
\* whose accounts are stored is completed by execute exactly when the
\* withdraw rule of its source passes; a refused approval leaves the
\* transaction pending with its amount and account references, and the
\* accounts, as they were, so that an approval after deposits have raised
\* the source enough returns true and completes it.
C16_FailedExecuteRetryable ==
    /\ [](\A id \in DOMAIN transactions :
            LET t == get_transaction(id)
                accts == get_all_accounts
                r == execute(t, accts)
            IN  (/\ t.status = "pending"
                 /\ t.transaction_type \in {"spending", "transfer"}
                 /\ t.from_account_id \in DOMAIN accts
                 /\ t.transaction_type = "transfer" => t.to_account_id \in DOMAIN accts)
                => /\ r.ret <=> FundsSuffice(accts[t.from_account_id], t.amount)
                   /\ r.txn = IF r.ret THEN [t EXCEPT !.status = "completed"] ELSE t
                   /\ ~r.ret => r.accounts = accts)
    /\ [][(last'.op = "execute" /\ last'.ret = "False" /\ last' # last) =>
            (/\ UNCHANGED <<accounts, transactions>>
             /\ last'.id \in refused')]_vars
    /\ [][\A id \in refused :
            (approve_transaction(id) /\ transactions[id].status = "pending"
             /\ transactions[id].transaction_type \in {"spending", "transfer"}
             /\ transactions[id].from_account_id \in DOMAIN accounts
             /\ (transactions[id].transaction_type = "transfer"
                    => transactions[id].to_account_id \in DOMAIN accounts)
             /\ FundsSuffice(get_all_accounts[transactions[id].from_account_id],
                             transactions[id].amount))
            => /\ last'.ret = "True"
               /\ transactions'[id] = [transactions[id] EXCEPT !.status = "completed"]]_vars

\* a spending of more than the savings account held was refused, and
\* approved after a deposit
C16_Witness ==
    /\ 1 \in refused
    /\ Executed(1) /\ last.ret = "True"
    /\ transactions[1].transaction_type = "spending"
    /\ transactions[1].from_account_id = "savings"
    /\ transactions[1].amount = MaxAmount
    /\ transactions[1].status = "completed"

(***************************************************************************)
(* Properties of Account.withdraw and Account.deposit (SpecAccount).       *)
(***************************************************************************)
\* C3: a savings account's balance is never negative, and a withdraw of
\* more than the balance returns false and leaves the balance as it was.
C3_SavingsNonNegative ==
    \A a \in DOMAIN accounts :
        LET acct == Account_from_dict(accounts[a])
        IN  acct.account_type = "savings" =>
                /\ acct.balance >= 0
                /\ \A amount \in 1..(MaxBalance + 1) :
                       amount > acct.balance =>
                           withdraw(acct, amount) = [ret |-> FALSE, account |-> acct]

\* a withdraw from the savings account was denied
C3_Witness ==
    /\ last.op = "withdraw" /\ last.acct = "savings" /\ last.ret = "False"
    /\ accounts["savings"].balance < MaxAmount

\* C4: a credit account's balance never falls below -credit_limit, and
\* withdraw succeeds (lowering the balance by the amount) if and only if
\* balance - amount >= -credit_limit.
C4_CreditLimitKept ==
    \A a \in DOMAIN accounts :
        LET acct == Account_from_dict(accounts[a])
        IN  acct.account_type = "credit" =>
                /\ acct.balance >= -acct.credit_limit
                /\ \A amount \in 1..(MaxBalance + CreditLimit + 1) :
                       LET r == withdraw(acct, amount)
                       IN  /\ r.ret <=> acct.balance - amount >= -acct.credit_limit
                           /\ r.account.balance
                                 = IF r.ret THEN acct.balance - amount ELSE acct.balance

\* the credit account was drawn down to its limit and a further withdraw refused
C4_Witness ==
    /\ last.op = "withdraw" /\ last.acct = "credit" /\ last.ret = "False"
    /\ accounts["credit"].balance = -accounts["credit"].credit_limit

\* C12: withdraw is never partially applied.  A call that returns false
\* leaves the account as it was and a call that returns true lowers the
\* balance by exactly the amount; on a debit account it always returns true
\* and may leave a negative balance (100.00 less 150.00 gives true and
\* -50.00), and on a savings account with 50.00 a withdraw of 100.00 returns
\* false and leaves 50.00.
C12_WithdrawAllOrNothing ==
    /\ [](\A a \in DOMAIN accounts : \A amount \in 1..(MaxBalance + CreditLimit + 1) :
            LET acct == Account_from_dict(accounts[a])
                r == withdraw(acct, amount)
            IN  /\ r.account = IF r.ret THEN [acct EXCEPT !.balance = @ - amount] ELSE acct
                /\ acct.account_type = "debit" => r.ret)
    /\ [](/\ withdraw(Account("debit", 10000, 0), 15000)
               = [ret |-> TRUE, account |-> Account("debit", -5000, 0)]
           /\ withdraw(Account("savings", 5000, 0), 10000)
               = [ret |-> FALSE, account |-> Account("savings", 5000, 0)])
    /\ [][last'.op = "withdraw" =>
            /\ last'.ret = "False" => accounts' = accounts
            /\ last'.ret = "True" =>
                   \E amount \in Amounts :
                       accounts' = [accounts EXCEPT ![last'.acct].balance = @ - amount]
            /\ accounts[last'.acct].account_type = "debit" => last'.ret = "True"]_vars

\* a withdraw overdrew the debit account
C12_Witness ==
    /\ last.op = "withdraw" /\ last.acct = "debit" /\ last.ret = "True"
    /\ accounts["debit"].balance < 0

(***************************************************************************)
(* Properties of debts (checked under SpecDebt).                           *)
(***************************************************************************)
\* C5: the payments recorded for a debt never add up to more than its amount.
C5_PaymentsBounded ==
    \A id \in DOMAIN debts :
        get_paid_amount(get_debt(id)) <= get_debt(id).amount

\* a debt was repaid by a partial payment and then mark_as_paid
C5_Witness ==
    /\ 1 \in DOMAIN debts
    /\ last.op = "mark_as_paid" /\ last.ret = "Transaction"
    /\ Len(get_debt(1).payment_history) = 2
    /\ get_paid_amount(get_debt(1)) = get_debt(1).amount

\* C6: a debt has status paid exactly when its remaining amount is below
\* the tolerance (is zero).
C6_PaidIffNothingRemains ==
    \A id \in DOMAIN debts :
        get_debt(id).status = "paid" <=> get_remaining_amount(get_debt(id)) < Epsilon

\* an overdue debt was repaid by partial payments alone
C6_Witness ==
    /\ 1 \in DOMAIN debts
    /\ last.op = "make_partial_payment" /\ last.ret = "Transaction"
    /\ get_debt(1).status = "paid"
    /\ Len(get_debt(1).payment_history) = 2
    /\ TextLess(debts[1].due_date, isoformat(today))

\* C7: make_partial_payment rejects a payment when the debt is paid, when
\* the amount is not positive or when it exceeds the remaining amount; a
\* rejected call returns no transaction and leaves the debt as it was, and
\* the store with it.  For a payable debt of 3 with a linked account: paying
\* 1 gives partial with 2 remaining, paying 2 gives paid with 0 remaining,
\* and a third payment of 1 is rejected with no change.
C7_RejectedPaymentChangesNothing ==
    /\ [](\A id \in DOMAIN debts : \A amount \in PaymentAmounts :
            LET d == get_debt(id)
                r == make_partial_payment(d, amount, today, "")
            IN  (d.status = "paid" \/ amount <= 0 \/ amount > get_remaining_amount(d)) =>
                    /\ r.ret \in {"raise", "None"}
                    /\ r.debt = d
                    /\ r.txn = NoTransaction)
    /\ [](\A due \in DueDates :
            LET d0 == Debt(3, due, FALSE, "debit")
                r1 == make_partial_payment(d0, 1, today, "")
                r2 == make_partial_payment(r1.debt, 2, today, "")
                r3 == make_partial_payment(r2.debt, 1, today, "")
            IN  /\ r1.ret = "Transaction" /\ r1.debt.status = "partial"
                /\ get_remaining_amount(r1.debt) = 2
                /\ r2.ret = "Transaction" /\ r2.debt.status = "paid"
                /\ get_remaining_amount(r2.debt) = 0
                /\ r3.ret \in {"raise", "None"} /\ r3.debt = r2.debt)
    /\ [][(last'.op = "make_partial_payment" /\ last'.ret \in {"raise", "None"}) =>
             UNCHANGED <<debts, transactions>>]_vars

\* the debt of 3 was paid with 1 and then 2, and a third payment was rejected
C7_Witness ==
    /\ 1 \in DOMAIN debts
    /\ last.op = "make_partial_payment" /\ last.ret = "None"
    /\ get_debt(1).amount = 3 /\ ~get_debt(1).is_receivable
    /\ get_debt(1).status = "paid"
    /\ Len(get_debt(1).payment_history) = 2
    /\ get_debt(1).payment_history[1].amount = 1
    /\ get_debt(1).payment_history[2].amount = 2
    /\ Cardinality(DOMAIN transactions) = 2

\* a < b on dates
DateBefore(a, b) == DateLeq(a, b) /\ a # b

\* C15: the overdue sweep sets status overdue on exactly the debts that are
\* pending and due before today, leaves every other debt (partial, paid,
\* overdue, or pending and not yet due) and every payment history as it
\* was, and returns the number of debts it changed; a second sweep on the
\* same date changes nothing and returns 0.
C15_SweepMarksOverdue ==
    /\ [][last'.op = "check_and_update_overdue_debts" =>
            LET late == {id \in DOMAIN debts :
                            /\ get_debt(id).status = "pending"
                            /\ DateBefore(get_debt(id).due_date, today)}
            IN  /\ DOMAIN debts' = DOMAIN debts
                /\ \A id \in late : debts'[id] = [debts[id] EXCEPT !.status = "overdue"]
                /\ \A id \in DOMAIN debts \ late : debts'[id] = debts[id]
                /\ last'.id = Cardinality(late)
                /\ last.op = "check_and_update_overdue_debts" =>
                       (debts' = debts /\ last'.id = 0)
                /\ UNCHANGED <<accounts, transactions, subscriptions>>]_vars
    /\ [](last.op = "check_and_update_overdue_debts" =>
            \A id \in DOMAIN debts :
                ~(get_debt(id).status = "pending" /\ DateBefore(get_debt(id).due_date, today)))

\* a sweep changed nothing: the one debt is pending and due today
C15_Witness ==
    /\ last.op = "check_and_update_overdue_debts" /\ last.id = 0
    /\ 1 \in DOMAIN debts
    /\ get_debt(1).status = "pending"
    /\ get_debt(1).due_date = today

(***************************************************************************)
(* Properties of the billing sweep (checked under SpecSub).                *)
(***************************************************************************)
Swept == last'.op = "generate_pending_subscription_transactions"

\* the subscriptions a sweep on the current day has to bill
Billable ==
    {id \in DOMAIN subscriptions :
        /\ subscriptions[id].status = "active"
        /\ subscriptions[id].linked_account_id # None
        /\ TextLeq(subscriptions[id].next_payment_date, isoformat(today))}

\* the transaction row that bills a subscription row
BillOf(row) ==
    [date |-> row.next_payment_date, amount |-> row.amount,
     transaction_type |-> "spending", from_account_id |-> row.linked_account_id,
     to_account_id |-> None, status |-> "pending"]

PeriodMonths(frequency) ==
    IF frequency = "quarterly" THEN 3 ELSE IF frequency = "yearly" THEN 12 ELSE 1

\* C8: one sweep creates, for every active subscription with a linked
\* account that is due, exactly one pending spending transaction of the
\* subscription's amount on the linked account, dated the date that was due,
\* and advances the stored date by exactly one period, however many periods
\* have gone by; due 2024-01-15, monthly, swept on 2024-02-01 gives one
\* transaction and the next date 2024-02-15.
C8_SweepBillsOnce ==
    /\ [][Swept =>
            LET new == DOMAIN transactions' \ DOMAIN transactions
            IN  /\ Cardinality(new) = Cardinality(Billable)
                /\ \A id \in Billable :
                       /\ \E t \in new : transactions'[t] = BillOf(subscriptions[id])
                       /\ subscriptions'[id] =
                              [subscriptions[id] EXCEPT !.next_payment_date =
                                  isoformat(AddMonths(strptime(@),
                                      PeriodMonths(subscriptions[id].frequency)))]
                /\ \A t \in DOMAIN transactions : transactions'[t] = transactions[t]]_vars
    /\ [](LET table == (1 :> Subscription_to_dict(
                                 Subscription(1, "monthly", Date(2024, 1, 15), "debit")))
              r == BillEach(DueRows(table, Date(2024, 2, 1)), <<>>, table)
          IN  /\ r.generated = 1
              /\ DOMAIN r.transactions = {1}
              /\ r.transactions[1].amount = 1
              /\ r.subscriptions[1].next_payment_date = isoformat(Date(2024, 2, 15)))

\* on 2024-04-01 a monthly subscription due since 2024-01-15 was billed once
C8_Witness ==
    /\ last.op = "generate_pending_subscription_transactions" /\ last.id = 1
    /\ today = Date(2024, 4, 1)
    /\ 1 \in DOMAIN subscriptions
    /\ subscriptions[1].frequency = "monthly"
    /\ subscriptions[1].next_payment_date = isoformat(Date(2024, 2, 15))
    /\ DOMAIN transactions = {1}
    /\ transactions[1].date = isoformat(Date(2024, 1, 15))
    /\ transactions[1].amount = subscriptions[1].amount

\* C9: a sweep never bills a subscription that is paused or canceled, has
\* no linked account or is not yet due: its row, with its next payment
\* date, is left as it was, and every transaction the sweep creates is the
\* bill of a subscription that is active, linked and due.
C9_NoBillingUnlessDue ==
    [][Swept =>
          LET new == DOMAIN transactions' \ DOMAIN transactions
          IN  /\ \A id \in DOMAIN subscriptions \ Billable :
                     subscriptions'[id] = subscriptions[id]
              /\ Cardinality(new) <= Cardinality(Billable)
              /\ \A t \in new : \E id \in Billable :
                     transactions'[t] = BillOf(subscriptions[id])
              /\ Billable = {} => transactions' = transactions]_vars

\* a sweep passed over a subscription that is due but has no linked account
C9_Witness ==
    /\ last.op = "generate_pending_subscription_transactions" /\ last.id = 0
    /\ 1 \in DOMAIN subscriptions
    /\ subscriptions[1].status = "active"
    /\ subscriptions[1].linked_account_id = None
    /\ TextLess(subscriptions[1].next_payment_date, isoformat(today))
    /\ transactions = <<>>

(***************************************************************************)
(* Properties of the reads and writes of several threads.                  *)
(***************************************************************************)
\* C13: get_net_worth is an internally consistent read.  Whatever store
\* calls other threads make while it runs, the assets, liabilities and net
\* worth it returns are those of one store state that existed during the
\* call.
C13_NetWorthOfOneState ==
    \A c \in Callers :
        (calls[c].op = "get_net_worth" /\ calls[c].pc = "done") =>
            calls[c].result \in calls[c].seen

\* C14: approving a pending transaction is atomic on the store.  No stored
\* state, seen by another caller between two store calls or left by a
\* failure between them, has an account balance that already reflects the
\* transaction while the stored transaction is still pending, or has a
\* transfer's source debited while its destination is not yet credited.
C14_ApprovalAtomic ==
    \A c \in Callers :
        (Approving(c) /\ calls[c].pc # "get_all_accounts") =>
            LET t == calls[c].transaction
                read == calls[c].read
            IN  /\ transactions[calls[c].id].status = "pending" =>
                       \A a \in DOMAIN read : accounts[a].balance = read[a].balance
                /\ (/\ t.transaction_type = "transfer"
                     /\ t.from_account_id \in DOMAIN read
                     /\ t.to_account_id \in DOMAIN read
                     /\ t.to_account_id # t.from_account_id
                     /\ accounts[t.from_account_id].balance
                           = read[t.from_account_id].balance - t.amount)
                    => accounts[t.to_account_id].balance
                           = read[t.to_account_id].balance + t.amount

(***************************************************************************)
(* Properties of the ledger (checked under SpecSavings and SpecLedger).     *)
(***************************************************************************)
\* C17: across account creation and edit, reconciliation and transaction
\* approval, the stored balance of an account with account_type savings
\* is never negative.
C17_StoredSavingsNonNegative ==
    \A a \in DOMAIN accounts :
        accounts[a].account_type = "savings" => accounts[a].balance >= 0

\* C18: every transaction written to the store has amount > 0, whichever
\* handler wrote it; a reconciliation or a balance edit stores the absolute
\* value of the change and stores nothing when the balance does not change.
C18_AmountsPositive ==
    /\ [](\A id \in DOMAIN transactions : transactions[id].amount > 0)
    /\ [][\A id \in DOMAIN transactions' :
            (id \notin DOMAIN transactions \/ transactions'[id] # transactions[id])
                => transactions'[id].amount > 0]_vars
    /\ [][(last'.op \in {"perform_reconciliation", "save_account"}
            /\ last'.acct \in DOMAIN accounts) =>
            LET a == last'.acct
                change == accounts'[a].balance - accounts[a].balance
                new == DOMAIN transactions' \ DOMAIN transactions
            IN  /\ \A id \in DOMAIN transactions : transactions'[id] = transactions[id]
                /\ change = 0 => new = {}
                /\ change # 0 =>
                       \E id \in new :
                           /\ new = {id}
                           /\ transactions'[id].transaction_type = "adjustment"
                           /\ transactions'[id].amount = Abs(change)]_vars

C18_Witness ==
    /\ last.op = "perform_reconciliation"
    /\ accounts["debit"].balance = -1
    /\ \E id \in DOMAIN transactions :
          /\ transactions[id].transaction_type = "adjustment"
          /\ transactions[id].amount = 2
          /\ transactions[id].from_account_id = "debit"
          /\ transactions[id].to_account_id = None

(***************************************************************************)
(* Properties of the payments of a debt (checked under SpecDebt).          *)
(***************************************************************************)
\* a debt with a linked account that a payment of the amount is accepted on
Accepts(d, amount) ==
    /\ d.linked_account_id # None
    /\ d.status # "paid"
    /\ amount > 0
    /\ amount <= get_remaining_amount(d)

\* C19: an accepted make_partial_payment(amount) on a debt with a linked
\* account appends exactly one payment record of that amount, leaves the
\* status paid when nothing remains and partial otherwise, and gives one
\* new pending transaction of that amount: an income to the linked account
\* for a receivable, a spending from the linked account otherwise.
C19_PartialPaymentRecorded ==
    [][\A id \in DOMAIN debts, amount \in PaymentAmounts :
          (MakePartialPayment(id, amount) /\ Accepts(get_debt(id), amount)) =>
              LET before == get_debt(id)
                  after == Debt_from_dict(debts'[id])
                  n == Len(before.payment_history)
                  new == DOMAIN transactions' \ DOMAIN transactions
              IN  /\ last'.ret = "Transaction"
                  /\ Len(after.payment_history) = n + 1
                  /\ SubSeq(after.payment_history, 1, n) = before.payment_history
                  /\ after.payment_history[n + 1].amount = amount
                  /\ after.status = IF get_remaining_amount(after) = 0
                                    THEN "paid" ELSE "partial"
                  /\ get_remaining_amount(after) = get_remaining_amount(before) - amount
                  /\ \A t \in DOMAIN transactions : transactions'[t] = transactions[t]
                  /\ \E t \in new :
                        /\ new = {t}
                        /\ transactions'[t].amount = amount
                        /\ transactions'[t].status = "pending"
                        /\ IF before.is_receivable
                           THEN /\ transactions'[t].transaction_type = "income"
                                /\ transactions'[t].to_account_id = before.linked_account_id
                                /\ transactions'[t].from_account_id = None
                           ELSE /\ transactions'[t].transaction_type = "spending"
                                /\ transactions'[t].from_account_id = before.linked_account_id
                                /\ transactions'[t].to_account_id = None]_vars

C19_Witness ==
    /\ last.op = "make_partial_payment"
    /\ last.ret = "Transaction"
    /\ last.id \in DOMAIN debts
    /\ debts[last.id].status = "partial"
    /\ debts[last.id].is_receivable = 1
    /\ \E t \in DOMAIN transactions :
          /\ transactions[t].transaction_type = "income"
          /\ transactions[t].to_account_id = debts[last.id].linked_account_id
          /\ transactions[t].amount = get_paid_amount(get_debt(last.id))

\* a debt without a linked account that a payment of the amount passes the
\* tests of make_partial_payment on
AcceptsUnlinked(d, amount) ==
    /\ d.linked_account_id = None
    /\ d.status # "paid"
    /\ amount > 0
    /\ amount <= get_remaining_amount(d)

\* C31 as stated: an accepted make_partial_payment (status not paid,
\* 0 < amount <= remaining) on a debt with no linked account still appends
\* the payment record and recomputes the status; only the transaction is
\* omitted (the call returns nothing).
C31_UnlinkedPaymentRecorded ==
    [][\A id \in DOMAIN debts, amount \in PaymentAmounts :
          (MakePartialPayment(id, amount) /\ AcceptsUnlinked(get_debt(id), amount)) =>
              LET before == get_debt(id)
                  after == Debt_from_dict(debts'[id])
                  n == Len(before.payment_history)
              IN  /\ last'.ret = "None"
                  /\ transactions' = transactions
                  /\ Len(after.payment_history) = n + 1
                  /\ SubSeq(after.payment_history, 1, n) = before.payment_history
                  /\ after.payment_history[n + 1].amount = amount
                  /\ after.status = IF get_remaining_amount(after) = 0
                                    THEN "paid" ELSE "partial"]_vars

\* C31: a make_partial_payment that passes the tests (status not paid,
\* 0 < amount <= remaining) on a debt with no linked account records
\* nothing: no payment record is appended, the status stays as it was, no
\* transaction is made and the call returns nothing.
C31_UnlinkedPaymentDropped ==
    [][\A id \in DOMAIN debts, amount \in PaymentAmounts :
          (MakePartialPayment(id, amount) /\ AcceptsUnlinked(get_debt(id), amount)) =>
              /\ last'.ret = "None"
              /\ transactions' = transactions
              /\ debts' = debts
              /\ accounts' = accounts]_vars

\* a payment on a pending debt without a linked account has returned nothing
C31_Witness ==
    /\ last.op = "make_partial_payment"
    /\ last.ret = "None"
    /\ last.id \in DOMAIN debts
    /\ debts[last.id].linked_account_id = None
    /\ debts[last.id].status = "pending"
    /\ get_debt(last.id).payment_history = <<>>
    /\ get_remaining_amount(get_debt(last.id)) > 0
    /\ transactions = <<>>

\* the fields two results of a Debt method are compared on
Outcome(r) ==
    [ret |-> r.ret, status |-> r.debt.status, remaining |-> get_remaining_amount(r.debt),
     records |-> Len(r.debt.payment_history),
     paid |-> IF r.debt.payment_history = <<>> THEN 0
              ELSE r.debt.payment_history[Len(r.debt.payment_history)].amount,
     amount |-> r.txn.amount, transaction_type |-> r.txn.transaction_type,
     from_account_id |-> r.txn.from_account_id, to_account_id |-> r.txn.to_account_id,
     txn_status |-> r.txn.status]

\* C20: for every unpaid debt with a linked account and remaining amount
\* r > 0, mark_as_paid and make_partial_payment(r) do the same: one payment
\* record of amount r more, status paid, remaining 0, and a pending
\* transaction of amount r of the same type and direction; and the row and
\* the transaction that a mark-as-paid step stores are those of the payment.
C20_MarkAsPaidIsFinalPayment ==
    /\ [](\A id \in DOMAIN debts :
            LET d == get_debt(id)
                r == get_remaining_amount(d)
                a == mark_as_paid(d, today)
                b == make_partial_payment(d, r, today, "")
            IN  (d.status # "paid" /\ d.linked_account_id # None /\ r > 0) =>
                    /\ Outcome(a) = Outcome(b)
                    /\ a.ret = "Transaction"
                    /\ a.debt.status = "paid"
                    /\ get_remaining_amount(a.debt) = 0
                    /\ Len(a.debt.payment_history) = Len(d.payment_history) + 1
                    /\ a.debt.payment_history[Len(a.debt.payment_history)].amount = r
                    /\ a.txn.amount = r
                    /\ a.txn.status = "pending")
    /\ [][\A id \in DOMAIN debts :
            LET d == get_debt(id)
                r == get_remaining_amount(d)
                b == make_partial_payment(d, r, today, "Final payment")
            IN  (MarkAsPaid(id) /\ d.status # "paid" /\ d.linked_account_id # None /\ r > 0) =>
                    /\ debts' = save_debt(debts, id, b.debt)
                    /\ transactions' = save_transaction(transactions, NewId(transactions), b.txn)
                    /\ last'.ret = b.ret]_vars

C20_Witness ==
    /\ last.op = "mark_as_paid"
    /\ last.ret = "Transaction"
    /\ last.id \in DOMAIN debts
    /\ debts[last.id].status = "paid"
    /\ Len(get_debt(last.id).payment_history) = 2
    /\ get_remaining_amount(get_debt(last.id)) = 0

(***************************************************************************)
(* Properties of the balances under execute (checked under Spec).          *)
(***************************************************************************)
\* the account a with its balance changed by delta
Moved(a, delta) == [a EXCEPT !.balance = @ + delta]

\* C29: a successful transfer between two distinct accounts lowers the
\* source by exactly the amount and raises the destination by exactly the
\* amount, so that their sum is unchanged, and changes no other account; a
\* successful spending changes only the source (by -amount) and a
\* successful income only the destination (by +amount).  The same holds of
\* the stored balances over every approval step.
C29_TransferConserves ==
    /\ [](\A id \in DOMAIN transactions :
            LET t == get_transaction(id)
                accts == get_all_accounts
                r == execute(t, accts)
                from == t.from_account_id
                to == t.to_account_id
            IN  r.ret =>
                  /\ (t.transaction_type = "transfer" /\ from # to) =>
                        /\ r.accounts[from] = Moved(accts[from], -t.amount)
                        /\ r.accounts[to] = Moved(accts[to], t.amount)
                        /\ r.accounts[from].balance + r.accounts[to].balance
                              = accts[from].balance + accts[to].balance
                        /\ \A a \in DOMAIN accts \ {from, to} : r.accounts[a] = accts[a]
                  /\ t.transaction_type = "spending" =>
                        /\ r.accounts[from] = Moved(accts[from], -t.amount)
                        /\ \A a \in DOMAIN accts \ {from} : r.accounts[a] = accts[a]
                  /\ t.transaction_type = "income" =>
                        /\ r.accounts[to] = Moved(accts[to], t.amount)
                        /\ \A a \in DOMAIN accts \ {to} : r.accounts[a] = accts[a]
                  /\ DOMAIN r.accounts = DOMAIN accts)
    /\ [][(last'.op = "execute" /\ last'.ret = "True") =>
            LET t == get_transaction(last'.id)
                from == t.from_account_id
                to == t.to_account_id
                delta(a) == accounts'[a].balance - accounts[a].balance
            IN  /\ DOMAIN accounts' = DOMAIN accounts
                /\ (t.transaction_type = "transfer" /\ from # to) =>
                      /\ delta(from) = -t.amount
                      /\ delta(to) = t.amount
                      /\ \A a \in DOMAIN accounts \ {from, to} : accounts'[a] = accounts[a]
                /\ t.transaction_type = "spending" =>
                      /\ delta(from) = -t.amount
                      /\ \A a \in DOMAIN accounts \ {from} : accounts'[a] = accounts[a]
                /\ t.transaction_type = "income" =>
                      /\ delta(to) = t.amount
                      /\ \A a \in DOMAIN accounts \ {to} : accounts'[a] = accounts[a]]_vars

\* a transfer from the debit account to the savings account was executed
C29_Witness ==
    /\ Executed(1) /\ last.ret = "True"
    /\ transactions[1].transaction_type = "transfer"
    /\ transactions[1].from_account_id = "debit"
    /\ transactions[1].to_account_id = "savings"
    /\ transactions[1].status = "completed"
    /\ accounts["debit"].balance = 1 - transactions[1].amount
    /\ accounts["savings"].balance = 1 + transactions[1].amount
    /\ accounts["credit"].balance = 0

\* C30: executing a pending adjustment that names at least one account
\* only sets its status to completed and returns true; no account balance
\* changes, whether or not the account named is still stored.
C30_AdjustmentOnlyCompletes ==
    /\ [](\A id \in DOMAIN transactions :
            LET t == get_transaction(id)
                accts == get_all_accounts
                r == execute(t, accts)
            IN  (/\ t.transaction_type = "adjustment"
                 /\ t.status = "pending"
                 /\ NamedRefs(t) # {}) =>
                    /\ r.ret
                    /\ r.txn = [t EXCEPT !.status = "completed"]
                    /\ r.accounts = accts)
    /\ [][\A id \in DOMAIN transactions :
            (/\ approve_transaction(id)
             /\ transactions[id].transaction_type = "adjustment"
             /\ transactions[id].status = "pending"
             /\ NamedRefs(get_transaction(id)) # {}) =>
                /\ last'.ret = "True"
                /\ accounts' = accounts
                /\ transactions' = [transactions EXCEPT ![id].status = "completed"]]_vars

\* an adjustment naming an account that is no longer stored was executed
C30_Witness ==
    /\ Executed(1) /\ last.ret = "True"
    /\ transactions[1].transaction_type = "adjustment"
    /\ transactions[1].status = "completed"
    /\ transactions[1].to_account_id = GoneId
    /\ transactions[1].from_account_id = None

(***************************************************************************)
(* Properties of the store's calls by id (checked under SpecDelete and     *)
(* SpecStore).                                                             *)
(***************************************************************************)
\* C21: deleting a transaction, at any status, completed included, leaves
\* every stored account as it was: the balances a completed transaction
\* changed are not changed back.
C21_DeleteKeepsBalances ==
    [][\A id \in StoreIds : DeleteTransaction(id) => accounts' = accounts]_vars

\* a completed spending from the debit account was deleted: its amount is
\* still missing from the balance
C21_Witness ==
    /\ last = Called("delete_transaction", None, 1, "True")
    /\ transactions = <<>>
    /\ accounts["debit"].balance < 0
    /\ accounts["savings"].balance = 1
    /\ accounts["credit"].balance = 0

\* the four tables
Store == <<accounts, transactions, debts, subscriptions>>

\* the table is as before but for the row of the id, which is gone
OnlyRowRemoved(before, after, id) ==
    /\ DOMAIN after = DOMAIN before \ {id}
    /\ \A i \in DOMAIN after : after[i] = before[i]

\* C22: for each kind of entity, reading an id that is not stored gives
\* None (no raise) and changes nothing; deleting an id that is not stored
\* returns false and leaves the whole store unchanged; deleting a stored id
\* returns true and removes that row only.
C22_MissingIdsHandled ==
    /\ [][\A id \in StoreAccountIds :
            /\ GetAccount(id) =>
                  /\ Store' = Store
                  /\ last'.ret = IF id \in DOMAIN accounts THEN "Account" ELSE "None"
            /\ DeleteAccount(id) =>
                  /\ last'.ret = Bool(id \in DOMAIN accounts)
                  /\ id \notin DOMAIN accounts => Store' = Store
                  /\ OnlyRowRemoved(accounts, accounts', id)
                  /\ <<transactions, debts, subscriptions>>'
                        = <<transactions, debts, subscriptions>>]_vars
    /\ [][\A id \in StoreIds :
            /\ GetTransaction(id) =>
                  /\ Store' = Store
                  /\ last'.ret = IF id \in DOMAIN transactions THEN "Transaction" ELSE "None"
            /\ GetDebt(id) =>
                  /\ Store' = Store
                  /\ last'.ret = IF id \in DOMAIN debts THEN "Debt" ELSE "None"
            /\ GetSubscription(id) =>
                  /\ Store' = Store
                  /\ last'.ret = IF id \in DOMAIN subscriptions THEN "Subscription" ELSE "None"
            /\ DeleteTransaction(id) =>
                  /\ last'.ret = Bool(id \in DOMAIN transactions)
                  /\ id \notin DOMAIN transactions => Store' = Store
                  /\ OnlyRowRemoved(transactions, transactions', id)
                  /\ <<accounts, debts, subscriptions>>' = <<accounts, debts, subscriptions>>
            /\ DeleteDebt(id) =>
                  /\ last'.ret = Bool(id \in DOMAIN debts)
                  /\ id \notin DOMAIN debts => Store' = Store
                  /\ OnlyRowRemoved(debts, debts', id)
                  /\ <<accounts, transactions, subscriptions>>'
                        = <<accounts, transactions, subscriptions>>
            /\ DeleteSubscription(id) =>
                  /\ last'.ret = Bool(id \in DOMAIN subscriptions)
                  /\ id \notin DOMAIN subscriptions => Store' = Store
                  /\ OnlyRowRemoved(subscriptions, subscriptions', id)
                  /\ <<accounts, transactions, debts>>' = <<accounts, transactions, debts>>]_vars
    /\ [](last.ret # "raise")

\* the delete of a debt that is not stored was refused, next to a stored
\* debt and rows in the other tables
C22_Witness ==
    /\ last = Called("delete_debt", None, 2, "False")
    /\ DOMAIN debts = {1}
    /\ DOMAIN accounts = StoreAccountIds
    /\ DOMAIN transactions = StoreIds
    /\ DOMAIN subscriptions = {2}

\* the table is as before but for the row of the id
OnlyRowWritten(before, after, id) ==
    /\ DOMAIN after = DOMAIN before \cup {id}
    /\ Cardinality(DOMAIN after) =
          Cardinality(DOMAIN before) + (IF id \in DOMAIN before THEN 0 ELSE 1)
    /\ \A i \in DOMAIN before \ {id} : after[i] = before[i]

\* C23: for each of Account, Transaction, Debt and Subscription, saving an
\* entity and then loading it by its id gives an entity equal to the saved
\* one in every field, a debt's payment history included (the same records
\* in the same order); saving under an id that is stored replaces the row
\* and adds none.
C23_SaveLoadRoundTrip ==
    /\ [][\A id \in StoreAccountIds, a \in SavedAccounts :
            SaveAccount(id, a) =>
                /\ Database_get_account(id)' = <<a>>
                /\ OnlyRowWritten(accounts, accounts', id)]_vars
    /\ [][\A id \in StoreIds :
            /\ \A t \in SavedTransactions :
                  SaveTransaction(id, t) =>
                      /\ Database_get_transaction(id)' = <<t>>
                      /\ OnlyRowWritten(transactions, transactions', id)
            /\ \A d \in SavedDebts :
                  SaveDebt(id, d) =>
                      /\ Database_get_debt(id)' = <<d>>
                      /\ Database_get_debt(id)'[1].payment_history = d.payment_history
                      /\ OnlyRowWritten(debts, debts', id)
            /\ \A sub \in SavedSubscriptions :
                  SaveSubscription(id, sub) =>
                      /\ Database_get_subscription(id)' = <<sub>>
                      /\ OnlyRowWritten(subscriptions, subscriptions', id)]_vars

\* a debt with two payment records was saved over a stored debt with none,
\* next to a second debt
C23_Witness ==
    /\ last = Called("save_debt", None, 1, "id")
    /\ DOMAIN debts = StoreIds
    /\ Len(Database_get_debt(1)[1].payment_history) = 2
    /\ Database_get_debt(1)[1].payment_history[2].notes = "Final payment"
    /\ Database_get_debt(2)[1].payment_history = <<>>

(***************************************************************************)
(* Properties of the totals (checked under SpecLiquidity, SpecWorth and    *)
(* SpecStats).                                                             *)
(***************************************************************************)
\* C24: get_liquidity is the sum, over the accounts that are neither
\* savings accounts (by account_type savings or by the is_savings flag) nor
\* credit accounts with a negative balance, of max(0, available balance in
\* CHF), the available balance being balance + credit_limit for a credit
\* account and 0 for a debit account with a negative balance; it is never
\* negative, and 0 when there are no accounts.
C24_LiquidityOfLiquidAccounts ==
    \A c \in Callers :
        calls[c].op = "get_liquidity" =>
            LET accts == get_all_accounts
                liquid == {a \in DOMAIN accts :
                             /\ accts[a].account_type # "savings"
                             /\ ~accts[a].is_savings
                             /\ ~(accts[a].account_type = "credit" /\ accts[a].balance < 0)}
                available(a) ==
                    IF accts[a].account_type = "credit"
                    THEN accts[a].balance + accts[a].credit_limit
                    ELSE IF accts[a].account_type = "debit" /\ accts[a].balance < 0 THEN 0
                    ELSE accts[a].balance
                value(a) == convert_to_chf(available(a), accts[a].currency)
            IN  /\ calls[c].ret = SumOf([a \in liquid |-> IF value(a) > 0 THEN value(a) ELSE 0])
                /\ calls[c].ret >= 0
                /\ DOMAIN accts = {} => calls[c].ret = 0

\* the amount of a stored row in CHF
RowInChf(amount, row) == convert_to_chf(amount, row.currency)

\* the net worth of the store, the debts of the given statuses counted
WorthCounting(statuses, past_due) ==
    LET positive == {a \in DOMAIN accounts : accounts[a].balance > 0}
        negative == {a \in DOMAIN accounts : accounts[a].balance < 0}
        counted(is_receivable) ==
            {d \in DOMAIN debts : /\ debts[d].status \in statuses
                                  /\ debts[d].is_receivable = is_receivable}
        remaining(d) == debts[d].amount - get_paid_amount(get_debt(d))
        upcoming == {i \in DOMAIN subscriptions :
                        /\ subscriptions[i].status = "active"
                        /\ DateLeq(strptime(subscriptions[i].next_payment_date),
                                   AddDays(today, 30))
                        /\ (past_due \/ DateLeq(today,
                                           strptime(subscriptions[i].next_payment_date)))}
        assets ==
            SumOf([a \in positive |-> RowInChf(accounts[a].balance, accounts[a])])
            + SumOf([d \in counted(1) |-> RowInChf(remaining(d), debts[d])])
        liabilities ==
            SumOf([a \in negative |-> RowInChf(-accounts[a].balance, accounts[a])])
            + SumOf([d \in counted(0) |-> RowInChf(remaining(d), debts[d])])
            + SumOf([i \in upcoming |-> RowInChf(subscriptions[i].amount, subscriptions[i])])
    IN  [assets |-> assets, liabilities |-> liabilities, net_worth |-> assets - liabilities]

Returns(c, worth) ==
    (calls[c].op = "get_net_worth" /\ calls[c].pc = "done") => calls[c].result = worth

C26_SavingsStatsOfMonth ==
    \A c \in Callers :
        calls[c].op = "get_savings_stats" =>
            LET month == calls[c].month
                year == calls[c].year
                first_day == Date(year, month, 1)
                next_first_day == IF month = 12 THEN Date(year + 1, 1, 1)
                                  ELSE Date(year, month + 1, 1)
                savings == {a \in DOMAIN accounts : get_all_accounts[a].is_savings}
                counted == {t \in DOMAIN transactions :
                               /\ get_transaction(t).status = "completed"
                               /\ DateLeq(first_day, get_transaction(t).date)
                               /\ DateBefore(get_transaction(t).date, next_first_day)}
                paid_in == SumOf([t \in {i \in counted : get_transaction(i).to_account_id
                                                             \in savings}
                                    |-> get_transaction(t).amount])
                paid_out == SumOf([t \in {i \in counted : get_transaction(i).from_account_id
                                                              \in savings}
                                     |-> get_transaction(t).amount])
            IN  /\ calls[c].ret.total_balance =
                      SumOf([a \in savings |-> get_all_accounts[a].balance])
                /\ calls[c].ret.month_contribution = paid_in - paid_out

\* the statistics of December 2023 on a savings account that a completed
\* income of December 31 was paid into, the other transaction, of January 1,
\* being left out
C26_Witness ==
    /\ calls["thread1"].op = "get_savings_stats" /\ calls["thread1"].month = 12
    /\ accounts["savings"].is_savings = 1 /\ accounts["debit"].is_savings = 0
    /\ get_transaction(1).date = Date(2023, 12, 31)
    /\ get_transaction(1).status = "completed"
    /\ get_transaction(1).transaction_type = "income"
    /\ get_transaction(2).date = Date(2024, 1, 1)
    /\ get_transaction(2).to_account_id = "savings"
    /\ calls["thread1"].ret.month_contribution = get_transaction(1).amount
    /\ calls["thread1"].ret.total_balance = MaxBalance

(***************************************************************************)
(* Properties of the trends (checked under SpecTrend).                     *)
(***************************************************************************)
\* the completed transactions dated in the lookback window of N days
InWindow(N) ==
    {t \in DOMAIN transactions :
        /\ get_transaction(t).status = "completed"
        /\ DateLeq(MinusDays(today, N), get_transaction(t).date)
        /\ DateLeq(get_transaction(t).date, today)}

\* the value a trend starts from
CurrentValue(op) ==
    IF op = "get_liquidity_trend" THEN get_liquidity(get_all_accounts)
    ELSE NetWorthNow.net_worth

C28_TrendUndoesDailyDeltas ==
    \A c \in Callers :
        (/\ calls[c].op = "get_liquidity_trend"
         /\ Cardinality(InWindow(calls[c].days)) >= 5) =>
            LET N == calls[c].days
                ret == calls[c].ret
                L == get_liquidity(get_all_accounts)
                impact(t) == IF get_transaction(t).transaction_type = "income"
                             THEN get_transaction(t).amount
                             ELSE IF get_transaction(t).transaction_type = "spending"
                             THEN 0 - get_transaction(t).amount
                             ELSE 0
                undone(i) ==
                    SumOf([t \in {u \in InWindow(N) :
                                     \E j \in 0..(i - 1) :
                                         get_transaction(u).date = MinusDays(today, j)}
                             |-> impact(t)])
            IN  /\ Len(ret) = N
                /\ \A k \in 1..N : ret[k].date = isoformat(MinusDays(today, N - k))
                /\ ret[N].value = L
                /\ \A i \in 1..(N - 1) :
                      ret[N - i].value = IF L - undone(i) > 0 THEN L - undone(i) ELSE 0

C38_EditKeepsPayments ==
    [][\A amount \in DebtAmounts, linked \in {None, "debit"} :
          (/\ EditingDebt("thread1")
           /\ amount > 0
           /\ DebtsView_save_edit("thread1", amount, calls["thread1"].debt.due_date, linked)) =>
              LET id == calls["thread1"].id
                  before == get_debt(id)
                  after == Debt_from_dict(debts'[id])
                  n == Len(before.payment_history)
              IN  /\ amount # before.amount =>
                        /\ get_paid_amount(after) <= after.amount
                        /\ after.status = "paid" <=> get_remaining_amount(after) = 0
                  /\ Len(after.payment_history) >= n
                  /\ SubSeq(after.payment_history, 1, n) = before.payment_history]_vars

(***************************************************************************)
(* Properties of the repeated sweep (checked under SpecCatchUp and         *)
(* SpecCatchUpFair).                                                       *)
(***************************************************************************)
\* the date one cycle of the frequency after the date
CycleAfter(date, frequency) == AddMonths(date, PeriodMonths(frequency))

\* C33: each billing event moves next_payment_date strictly forward by the
\* cycle of the subscription: one calendar month for monthly, three for
\* quarterly, one year for yearly and one month for a frequency that is not
\* recognised; over any sequence of sweeps the stored next_payment_date
\* never decreases, and it never stays equal after a billing event.
C33_BillingMovesDateForward ==
    [][Swept =>
          \A id \in DOMAIN subscriptions :
              LET before == strptime(subscriptions[id].next_payment_date)
                  after == strptime(subscriptions'[id].next_payment_date)
              IN  /\ DateLeq(before, after)
                  /\ id \in Billable =>
                        /\ after = CycleAfter(before, subscriptions[id].frequency)
                        /\ DateBefore(before, after)
                        /\ \E t \in DOMAIN transactions' \ DOMAIN transactions :
                              transactions'[t].date = isoformat(before)]_vars

\* a subscription of a frequency that is not recognised, due on 2024-01-31,
\* has been billed twice and is due next on 2024-03-29
C33_Witness ==
    /\ last.op = "generate_pending_subscription_transactions" /\ last.id = 1
    /\ subscriptions[1].frequency = "weekly"
    /\ subscriptions[1].next_payment_date = isoformat(Date(2024, 3, 29))
    /\ DOMAIN transactions = {1, 2}
    /\ transactions[1].date = isoformat(Date(2024, 1, 31))
    /\ transactions[2].date = isoformat(Date(2024, 2, 29))

\* the number of cycles after which the date is past the day
RECURSIVE CyclesBehind(_, _, _)
CyclesBehind(date, frequency, day) ==
    IF DateLeq(date, day) THEN 1 + CyclesBehind(CycleAfter(date, frequency), frequency, day)
    ELSE 0

\* the date n cycles on, one cycle at a time
RECURSIVE CyclesOn(_, _, _)
CyclesOn(date, frequency, n) ==
    IF n = 0 THEN date ELSE CyclesOn(CycleAfter(date, frequency), frequency, n - 1)

\* the subscription of the store is active and has a linked account
CatchingUp ==
    subscriptions[1].status = "active" /\ subscriptions[1].linked_account_id # None

\* the transactions generated so far, and the dates due next and due first
Billed == Cardinality(DOMAIN transactions)

NextDue == strptime(subscriptions[1].next_payment_date)

FirstDue == IF Billed = 0 THEN NextDue ELSE get_transaction(1).date

\* the periods the subscription was behind on the day
Behind == CyclesBehind(FirstDue, subscriptions[1].frequency, today)

EffectOn(t, account_id) ==
    (IF t.to_account_id = account_id /\ t.transaction_type \in {"income", "transfer"}
     THEN t.amount ELSE 0)
    - (IF t.from_account_id = account_id /\ t.transaction_type \in {"spending", "transfer"}
       THEN t.amount ELSE 0)

\* the balances of the accounts before any approval
BalanceAtStart(account_id) == IF account_id = "debit" THEN StartBalance ELSE 0

\* C34: under every interleaving of two approvals of the same pending
\* transaction (read the transaction, read the accounts, execute on the
\* private copies, save the accounts, save the transaction), the balance
\* effect of the transaction is applied to the stored balances exactly once.
C34_SameApprovalAppliedOnce ==
    (/\ \A c \in Callers : Approving(c) /\ calls[c].pc = "done"
     /\ calls["thread1"].id = calls["thread2"].id) =>
        LET t == get_transaction(calls["thread1"].id)
        IN  /\ t.status = "completed"
            /\ \A a \in DOMAIN accounts :
                  accounts[a].balance = BalanceAtStart(a) + EffectOn(t, a)

\* C35: no update of a balance is lost: every account row that an
\* approval stores carries the change of that approval on top of the
\* balance stored at that moment, so that after the approvals of two
\* transactions on one account the balance reflects both (B - a - b for
\* two spendings of a and b), and a balance stored meanwhile by a
\* reconciliation or an account edit is not overwritten.
C35_NoLostUpdate ==
    [][\A c \in Callers :
          LET t == calls[c].transaction
              written == IF approve_save_from(c) THEN t.from_account_id ELSE t.to_account_id
          IN  ((approve_save_from(c) \/ approve_save_to(c)) /\ written \in DOMAIN accounts) =>
                  accounts'[written].balance
                      = accounts[written].balance
                        + (calls[c].accounts[written].balance - calls[c].read[written].balance)]_vars

\* C39: only pending transactions are edited: once a transaction is stored
\* as completed its amount, date and account references never change,
\* also when an edit dialog opened while it was pending is saved after its
\* approval.
C39_CompletedNeverEdited ==
    [][\A id \in DOMAIN transactions :
          transactions[id].status = "completed" =>
              /\ id \in DOMAIN transactions'
              /\ transactions'[id].amount = transactions[id].amount
              /\ transactions'[id].date = transactions[id].date
              /\ transactions'[id].from_account_id = transactions[id].from_account_id
              /\ transactions'[id].to_account_id = transactions[id].to_account_id]_vars

\* C36: no double billing: with the sweep interleaved with pause, resume
\* and edit of the subscription, the store never holds two transactions
\* generated for the same subscription and the same payment date (the
\* store holds one subscription, and every transaction is one of its bills).
C36_NoDoubleBilling ==
    \A i \in DOMAIN transactions : \A j \in DOMAIN transactions :
        i # j => transactions[i].date # transactions[j].date

====
